---- MODULE Spec2Model ----
(***************************************************************************)
(* pysolo-tools: the tracking / aggregation engine of pysolo_video.py.     *)
(*                                                                         *)
(* A MonitoredArea is a record whose fields are the attributes of the      *)
(* Python object (without the leading underscore); every method is an      *)
(* operator from the area before the call to the area after it.  The       *)
(* frame pipeline (process_image_frames) is the state machine: one action  *)
(* per step of its loop.                                                   *)
(*                                                                         *)
(* Units and encodings                                                     *)
(*   - indices are 0-based as in the source (ROI index, window slot);      *)
(*   - a point is <<x, y>>, "no blob detected" (Python None) is <<>>;      *)
(*   - a stored point (uint32 arrays) is in whole pixels, a detected       *)
(*     centroid (a pair of floats) is in units of 1 / SubPixel of a pixel; *)
(*   - frame times are counted in frames (seconds * fps);                  *)
(*   - np.sqrt is the integer square root: the point sets used make every  *)
(*     distance a whole number, so it is exact on them;                    *)
(*   - a Position value is a pair of normalised fractions <<num, den>>,    *)
(*     because AveragePosition.aggregate_with divides;                     *)
(*   - beam coordinates are kept doubled (get_midline halves a side).      *)
(***************************************************************************)
EXTENDS Integers, Sequences, FiniteSets, TLC

(***************************************************************************)
(* Bounds of the model                                                     *)
(***************************************************************************)
MaxFrames == 4
MaxInterval == 4
MaxCap == 2
MaxBufSize == 2
MaxPool == 2
MaxRois == 2
MaxLoads == 2
MaxPastEnd == 2
MaxOpens == 2
\* a detected centroid has coordinates in steps of 1 / SubPixel of a pixel
SubPixel == 2

(***************************************************************************)
(* Program constants                                                       *)
(***************************************************************************)
ROIS_PER_MONITOR == 32

\* TrackingType
distance == 0
beam_crossings == 1
position == 2

None == <<>>
first_position == <<0, 0>>

(***************************************************************************)
(* Arithmetic helpers                                                      *)
(***************************************************************************)
Abs(x) == IF x < 0 THEN -x ELSE x

Min(a, b) == IF a < b THEN a ELSE b

RECURSIVE GCD(_, _)
GCD(a, b) == IF b = 0 THEN a ELSE GCD(b, a % b)

\* the fraction n/d in lowest terms, d > 0
Rat(n, d) ==
    LET g == GCD(Abs(n), Abs(d))
        s == IF d < 0 THEN -1 ELSE 1
    IN  <<(s * n) \div g, (s * d) \div g>>

RatInt(k) == <<k, 1>>

\* (a * n + b * m) / (n + m) for fractions a, b and integers n, m
RatWeightedMean(a, n, b, m) ==
    Rat(a[1] * n * b[2] + b[1] * m * a[2], a[2] * b[2] * (n + m))

\* np.sqrt on the whole numbers the model feeds it
Sqrt(n) == CHOOSE r \in 0..n : r * r <= n /\ n < (r + 1) * (r + 1)

\* sum of f[0] .. f[n-1]
RECURSIVE SumTo(_, _)
SumTo(f, n) == IF n <= 0 THEN 0 ELSE f[n - 1] + SumTo(f, n - 1)

\* ceil(a / b) for a >= 0, b > 0
CeilDiv(a, b) == (a + b - 1) \div b

(***************************************************************************)
(* ROI geometry                                                            *)
(***************************************************************************)
Min4(a, b, c, d) == Min(Min(a, b), Min(c, d))
Max4(a, b, c, d) == -Min4(-a, -b, -c, -d)

\* MonitoredArea.roi_to_rect with scale (1, 1)
roi_to_rect(roi) ==
    <<  <<Min4(roi[1][1], roi[2][1], roi[3][1], roi[4][1]),
          Min4(roi[1][2], roi[2][2], roi[3][2], roi[4][2])>>,
        <<Max4(roi[1][1], roi[2][1], roi[3][1], roi[4][1]),
          Max4(roi[1][2], roi[2][2], roi[3][2], roi[4][2])>> >>

\* MonitoredArea.get_midline(roi), default arguments; coordinates doubled
get_midline(roi) ==
    LET rect == roi_to_rect(roi)
        x1 == rect[1][1]
        y1 == rect[1][2]
        x2 == rect[2][1]
        y2 == rect[2][2]
        horizontal_beam == Abs(y2 - y1) >= Abs(x2 - x1)
    IN  IF horizontal_beam
        THEN << <<2 * x1, 2 * y1 + (y2 - y1)>>, <<2 * x2, 2 * y1 + (y2 - y1)>> >>
        ELSE << <<2 * x1 + (x2 - x1), 2 * y1>>, <<2 * x1 + (x2 - x1), 2 * y2>> >>

\* MonitoredArea._distance
Distance(p1, p2) ==
    Sqrt((p2[1] - p1[1]) * (p2[1] - p1[1]) + (p2[2] - p1[2]) * (p2[2] - p1[2]))

(***************************************************************************)
(* TrackingData records.  frame_time, values and n_values are the fields   *)
(* of the Python objects.  The others are history fields the code does not *)
(* keep: nframes, the number of window steps the record has consumed (the  *)
(* count _calculate_* returns); parts, the number of aggregates merged     *)
(* into it; weighted, per ROI the sum of (partial mean * its count).       *)
(***************************************************************************)
DistanceSum(frame_time, values, nframes) ==
    [kind |-> distance, frame_time |-> frame_time, values |-> values,
     nframes |-> nframes, parts |-> 1]

VirtualBeamCrossings(frame_time, values, nframes) ==
    [kind |-> beam_crossings, frame_time |-> frame_time, values |-> values,
     nframes |-> nframes, parts |-> 1]

AveragePosition(frame_time, values, n_values) ==
    [kind |-> position, frame_time |-> frame_time, values |-> values,
     n_values |-> n_values, nframes |-> n_values, parts |-> 1,
     weighted |-> [r \in DOMAIN values |->
                    <<values[r][1][1] * n_values, values[r][2][1] * n_values>>]]

\* mutant: a merge keeps only the values of the later partial aggregate
combine_values_keep_last(v1, v2) == v2

\* VirtualBeamCrossings.combine_values / DistanceSum.combine_values
combine_values(v1, v2) == [r \in DOMAIN v1 |-> v1[r] + v2[r]]

\* mutant: a merged record keeps the frame time of its first partial aggregate
TrackingData_aggregate_with_first_time(self, tracking_data) ==
    [self EXCEPT !.values = combine_values(self.values, tracking_data.values),
                 !.nframes = self.nframes + tracking_data.nframes,
                 !.parts = self.parts + tracking_data.parts]

\* TrackingData.aggregate_with
TrackingData_aggregate_with(self, tracking_data) ==
    [self EXCEPT !.frame_time = tracking_data.frame_time,
                 !.values = combine_values(self.values, tracking_data.values),
                 !.nframes = self.nframes + tracking_data.nframes,
                 !.parts = self.parts + tracking_data.parts]

\* AveragePosition.aggregate_with: _n_values is left as it was
AveragePosition_aggregate_with(self, tracking_data) ==
    [self EXCEPT !.frame_time = tracking_data.frame_time,
                 !.values = [r \in DOMAIN self.values |->
                    << RatWeightedMean(self.values[r][1], self.n_values,
                                       tracking_data.values[r][1], tracking_data.n_values),
                       RatWeightedMean(self.values[r][2], self.n_values,
                                       tracking_data.values[r][2], tracking_data.n_values) >>],
                 !.nframes = self.nframes + tracking_data.nframes,
                 !.parts = self.parts + tracking_data.parts,
                 !.weighted = [r \in DOMAIN self.weighted |->
                    <<self.weighted[r][1] + tracking_data.weighted[r][1],
                      self.weighted[r][2] + tracking_data.weighted[r][2]>>]]

aggregate_with(self, tracking_data) ==
    IF self.kind = position
    THEN AveragePosition_aggregate_with(self, tracking_data)
    ELSE TrackingData_aggregate_with(self, tracking_data)

\* TrackingData.format_values / AveragePosition.format_values: the value
\* columns of one line, ROIs start .. end-1, then the zero padding
format_values(self, start, end, nrois, extended_regions) ==
    [c \in 0..((Min(end, nrois) - start) + extended_regions - 1) |->
        IF start + c < Min(end, nrois)
        THEN self.values[start + c]
        ELSE IF self.kind = position THEN <<RatInt(0), RatInt(0)>> ELSE 0]

(***************************************************************************)
(* MonitoredArea                                                           *)
(***************************************************************************)
\* MonitoredArea.__init__
MonitoredArea(track_type, aggregated_frames, aggregated_frames_size, tracking_data_buffer_size, extend) ==
    LET size == IF aggregated_frames_size > 0 THEN aggregated_frames_size + 1 ELSE 2
    IN  [ track_type |-> track_type,
          ROIS |-> <<>>,
          rois_background |-> <<>>,
          beams |-> <<>>,
          tracking_data_buffer_size |->
              IF tracking_data_buffer_size > 0 THEN tracking_data_buffer_size ELSE 1,
          tracking_data_buffer |-> <<>>,
          tracking_data_buffer_index |-> 0,
          aggregated_frames |-> IF aggregated_frames > 0 THEN aggregated_frames ELSE 1,
          roi_filter |-> None,
          extend |-> extend,
          current_frame_fly_coord |-> [r \in 0..0 |-> <<0, 0>>],
          aggregated_frames_size |-> size,
          aggregated_frames_fly_coord |-> [r \in 0..0 |-> [j \in 0..(size - 1) |-> <<0, 0>>]],
          aggregated_frame_index |-> 0,
          aggregated_frames_buffer_index |-> 0,
          lineno |-> 0,
          output_filename |-> FALSE,
          files |-> <<>>,
          mask_file |-> "",
          points_to_track |-> <<>> ]

n_rois(ma) == Len(ma.ROIS)

\* MonitoredArea.set_roi_filter
set_roi_filter(ma, trackable_rois) == [ma EXCEPT !.roi_filter = trackable_rois]

\* mutant: the filter is ignored
is_roi_trackable_always(ma, roi) == TRUE

\* MonitoredArea.is_roi_trackable (None and [] are both the empty tuple)
is_roi_trackable(ma, roi) ==
    \/ ma.roi_filter = None
    \/ \E i \in 1..Len(ma.roi_filter) : ma.roi_filter[i] = roi

\* mutant: a last chunk that is not full gets no file
get_n_monitors_full_only(ma) == n_rois(ma) \div ROIS_PER_MONITOR

\* MonitoredArea.get_n_monitors
get_n_monitors(ma) ==
    IF n_rois(ma) % ROIS_PER_MONITOR > 0
    THEN n_rois(ma) \div ROIS_PER_MONITOR + 1
    ELSE n_rois(ma) \div ROIS_PER_MONITOR

\* MonitoredArea.set_output; prepare_monitored_areas removes the old files
set_output(ma) ==
    [ma EXCEPT !.lineno = 0, !.output_filename = TRUE,
               !.files = [mi \in 0..(get_n_monitors(ma) - 1) |-> <<>>]]

\* MonitoredArea._reset_data_buffers
reset_data_buffers(ma) ==
    [ma EXCEPT !.current_frame_fly_coord = [r \in 0..(n_rois(ma) - 1) |-> <<0, 0>>],
               !.aggregated_frames_fly_coord =
                   [r \in 0..(n_rois(ma) - 1) |->
                       [j \in 0..(ma.aggregated_frames_size - 1) |-> <<0, 0>>]]]

\* MonitoredArea.add_roi
add_roi(ma, roi, n_flies) ==
    [ma EXCEPT !.ROIS = Append(@, roi),
               !.points_to_track = Append(@, n_flies),
               !.beams = Append(@, get_midline(roi))]

(***************************************************************************)
(* A ROI file is a sequence of pickle opcodes <<op, argument>>: "I" pushes *)
(* an integer, "(" pushes a mark, "t" and "l" replace the items above the  *)
(* topmost mark by their tuple or list, "." ends an object.                *)
(***************************************************************************)
FileNames == {"rois.mask"}

NoDisk == [f \in FileNames |-> [exists |-> FALSE, data |-> <<>>]]

RECURSIVE Concat(_)
Concat(seqs) == IF seqs = <<>> THEN <<>> ELSE Head(seqs) \o Concat(Tail(seqs))

pickle_int(k) == << <<"I", k>> >>

pickle_point(p) == << <<"(", 0>> >> \o pickle_int(p[1]) \o pickle_int(p[2]) \o << <<"t", 0>> >>

pickle_roi(roi) ==
    << <<"(", 0>> >> \o Concat([i \in 1..Len(roi) |-> pickle_point(roi[i])]) \o << <<"t", 0>> >>

\* pickle.dump of the ROI list
pickle_dump_rois(rois) ==
    << <<"(", 0>> >> \o Concat([i \in 1..Len(rois) |-> pickle_roi(rois[i])])
        \o << <<"l", 0>>, <<".", 0>> >>

\* pickle.dump of the subject-count list
pickle_dump_counts(counts) ==
    << <<"(", 0>> >> \o Concat([i \in 1..Len(counts) |-> pickle_int(counts[i])])
        \o << <<"l", 0>>, <<".", 0>> >>

\* the position of the topmost mark of the unpickler's stack, 0 if none
topmost_mark(stack) ==
    IF \A m \in 1..Len(stack) : ~stack[m].mark THEN 0
    ELSE CHOOSE m \in 1..Len(stack) :
            stack[m].mark /\ \A j \in (m + 1)..Len(stack) : ~stack[j].mark

\* pickle.load from position pos of the data: the object read and the
\* position after it, or the exception raised
RECURSIVE pickle_load(_, _, _)
pickle_load(data, pos, stack) ==
    IF pos > Len(data) THEN [raised |-> "EOFError", value |-> <<>>, pos |-> pos]
    ELSE IF data[pos][1] = "I"
    THEN pickle_load(data, pos + 1, Append(stack, [mark |-> FALSE, v |-> data[pos][2]]))
    ELSE IF data[pos][1] = "("
    THEN pickle_load(data, pos + 1, Append(stack, [mark |-> TRUE, v |-> 0]))
    ELSE IF data[pos][1] \in {"t", "l"} /\ topmost_mark(stack) > 0
    THEN pickle_load(data, pos + 1,
            Append(SubSeq(stack, 1, topmost_mark(stack) - 1),
                   [mark |-> FALSE,
                    v |-> [i \in 1..(Len(stack) - topmost_mark(stack)) |->
                            stack[topmost_mark(stack) + i].v]]))
    ELSE IF data[pos][1] = "." /\ Len(stack) > 0 /\ topmost_mark(stack) < Len(stack)
    THEN [raised |-> "", value |-> stack[Len(stack)].v, pos |-> pos + 1]
    ELSE [raised |-> "UnpicklingError", value |-> <<>>, pos |-> pos]

\* mutant: the ROI list is written last ROI first
save_rois_reversed(ma) ==
    [exists |-> TRUE,
     data |-> pickle_dump_rois([i \in 1..Len(ma.ROIS) |-> ma.ROIS[Len(ma.ROIS) + 1 - i]])
                \o pickle_dump_counts(ma.points_to_track)]

\* MonitoredArea.save_rois: the file written
save_rois(ma) ==
    [exists |-> TRUE, data |-> pickle_dump_rois(ma.ROIS) \o pickle_dump_counts(ma.points_to_track)]

\* MonitoredArea.load_rois once both objects have been read
load_rois(ma, rois) ==
    LET loaded == reset_data_buffers([ma EXCEPT !.ROIS = rois])
    IN  [loaded EXCEPT
            !.beams = ma.beams \o [i \in 1..Len(rois) |-> get_midline(rois[i])],
            !.rois_background = ma.rois_background \o [i \in 1..Len(rois) |-> 0]]

\* MonitoredArea.load_rois of the file of that name: the area after the call
\* and the exception raised, "" if none
load_rois_file(ma, filename, files) ==
    LET named == [ma EXCEPT !.mask_file = filename]
        first == pickle_load(files[filename].data, 1, <<>>)
        second == pickle_load(files[filename].data, first.pos, <<>>)
    IN  IF ~files[filename].exists
        THEN [ma |-> named, raised |-> "FileNotFoundError"]
        ELSE IF first.raised # ""
        THEN [ma |-> named, raised |-> first.raised]
        ELSE IF second.raised # ""
        THEN [ma |-> [named EXCEPT !.ROIS = first.value], raised |-> second.raised]
        ELSE [ma |-> load_rois([named EXCEPT !.points_to_track = second.value], first.value),
              raised |-> ""]

\* a stored point, in the units of a detected centroid
as_detected(point) == <<point[1] * SubPixel, point[2] * SubPixel>>

\* the store of a pair of floats into a uint32 array: the fraction is dropped
as_uint32(coords) == <<coords[1] \div SubPixel, coords[2] \div SubPixel>>

\* MonitoredArea.add_fly_coords: the area after the call
add_fly_coords(ma, roi_index, coords) ==
    LET previous_position == ma.current_frame_fly_coord[roi_index]
        fly_coords == IF coords = None THEN as_detected(previous_position) ELSE coords
        dist == Distance(as_detected(previous_position), fly_coords)
    IN  [ma EXCEPT !.current_frame_fly_coord[roi_index] =
            IF dist = 0 THEN previous_position ELSE as_uint32(fly_coords)]

\* MonitoredArea.add_fly_coords: what the call returns, the distance in units
\* of 1 / SubPixel of a pixel and rounded down (it is 0 only if exactly 0)
add_fly_coords_returns(ma, roi_index, coords) ==
    [point |-> add_fly_coords(ma, roi_index, coords).current_frame_fly_coord[roi_index],
     distance |-> Distance(as_detected(ma.current_frame_fly_coord[roi_index]),
                           IF coords = None
                           THEN as_detected(ma.current_frame_fly_coord[roi_index])
                           ELSE coords)]

\* MonitoredArea._reset_tracking_data_buffer
reset_tracking_data_buffer(ma) ==
    [ma EXCEPT !.tracking_data_buffer = <<>>,
               !.tracking_data_buffer_index = 0,
               !.aggregated_frame_index = 0]

\* mutant: the window is emptied, the last frame is not carried over
shift_data_window_all(ma, nframes) ==
    [ma EXCEPT !.aggregated_frames_buffer_index = 0]

\* MonitoredArea._shift_data_window: np.roll by -nframes along the frame axis
shift_data_window(ma, nframes) ==
    [ma EXCEPT
        !.aggregated_frames_fly_coord =
            [r \in DOMAIN ma.aggregated_frames_fly_coord |->
                [j \in 0..(ma.aggregated_frames_size - 1) |->
                    ma.aggregated_frames_fly_coord[r][(j + nframes) % ma.aggregated_frames_size]]],
        !.aggregated_frames_buffer_index = ma.aggregated_frames_buffer_index - nframes]

\* the window slot that np.roll(_, -1) puts at slot j
Following(ma, r, j) ==
    ma.aggregated_frames_fly_coord[r][(j + 1) % ma.aggregated_frames_size]

\* MonitoredArea._calculate_distances: values, nframes and the area after it
calculate_distances(ma) ==
    LET nframes == ma.aggregated_frames_buffer_index - 1
        d(r) == [j \in 0..(ma.aggregated_frames_size - 1) |->
                    Distance(ma.aggregated_frames_fly_coord[r][j], Following(ma, r, j))]
    IN  IF nframes > 0
        THEN [values |-> [r \in 0..(n_rois(ma) - 1) |-> SumTo(d(r), nframes)],
              nframes |-> nframes,
              ma |-> shift_data_window(ma, nframes)]
        ELSE [values |-> [r \in 0..(n_rois(ma) - 1) |-> 0],
              nframes |-> nframes,
              ma |-> ma]

\* MonitoredArea._relative_beams (doubled coordinates), one per zipped pair
relative_beams(ma) ==
    [i \in 1..Min(Len(ma.ROIS), Len(ma.beams)) |->
        LET origin == roi_to_rect(ma.ROIS[i])[1]
            beam == ma.beams[i]
        IN  << <<beam[1][1] - 2 * origin[1], beam[1][2] - 2 * origin[2]>>,
               <<beam[2][1] - 2 * origin[1], beam[2][2] - 2 * origin[2]>> >>]

\* the side of its ROI's beam a point is on: -1 before it, 1 past it, 0 on it
\* (or the ROI has no beam)
BeamSide(ma, r, point) ==
    IF r >= Min(Len(ma.ROIS), Len(ma.beams)) THEN 0
    ELSE LET origin == roi_to_rect(ma.ROIS[r + 1])[1]
             beam == ma.beams[r + 1]
             v == IF beam[1][2] = beam[2][2]
                  THEN 2 * point[2] - (beam[1][2] - 2 * origin[2])
                  ELSE 2 * point[1] - (beam[1][1] - 2 * origin[1])
         IN  IF v < 0 THEN -1 ELSE IF v > 0 THEN 1 ELSE 0

\* MonitoredArea._calculate_vbm
calculate_vbm(ma) ==
    LET nframes == ma.aggregated_frames_buffer_index - 1
        beams == relative_beams(ma)
        crosses(r) ==
            LET md == beams[r + 1]
                mx1 == md[1][1]
                my1 == md[1][2]
                my2 == md[2][2]
                horizontal_beam == (my1 = my2)
            IN  [j \in 0..(ma.aggregated_frames_size - 1) |->
                    LET p == ma.aggregated_frames_fly_coord[r][j]
                        q == Following(ma, r, j)
                    IN  IF horizontal_beam
                        THEN IF \/ (2 * p[2] < my1 /\ 2 * q[2] >= my1)
                                \/ (2 * p[2] > my1 /\ 2 * q[2] <= my1) THEN 1 ELSE 0
                        ELSE IF \/ (2 * p[1] < mx1 /\ 2 * q[1] >= mx1)
                                \/ (2 * p[1] > mx1 /\ 2 * q[1] <= mx1) THEN 1 ELSE 0]
    IN  IF nframes > 0
        THEN [values |-> [r \in 0..(n_rois(ma) - 1) |->
                            IF r < Len(beams) /\ is_roi_trackable(ma, r)
                            THEN SumTo(crosses(r), nframes) ELSE 0],
              nframes |-> nframes,
              ma |-> shift_data_window(ma, nframes)]
        ELSE [values |-> [r \in 0..(n_rois(ma) - 1) |-> 0],
              nframes |-> nframes,
              ma |-> ma]

\* MonitoredArea._calculate_position: the means are stored into a uint32 array
calculate_position(ma) ==
    LET nframes == ma.aggregated_frames_buffer_index - 1
        x(r) == [j \in 0..(ma.aggregated_frames_size - 1) |-> Following(ma, r, j)[1]]
        y(r) == [j \in 0..(ma.aggregated_frames_size - 1) |-> Following(ma, r, j)[2]]
    IN  IF nframes > 0
        THEN [values |-> [r \in 0..(n_rois(ma) - 1) |->
                            << RatInt(SumTo(x(r), nframes) \div nframes),
                               RatInt(SumTo(y(r), nframes) \div nframes) >>],
              nframes |-> nframes,
              ma |-> shift_data_window(ma, nframes)]
        ELSE [values |-> [r \in 0..(n_rois(ma) - 1) |-> <<RatInt(0), RatInt(0)>>],
              nframes |-> nframes,
              ma |-> ma]

\* the TrackingData object aggregate_activity builds from the values c that
\* _calculate_* returned, with the area as that call left it
new_activity(track_type, frame_time, c) ==
    [activity |-> IF track_type = distance
                  THEN DistanceSum(frame_time, c.values, c.nframes)
                  ELSE IF track_type = beam_crossings
                  THEN VirtualBeamCrossings(frame_time, c.values, c.nframes)
                  ELSE AveragePosition(frame_time, c.values, c.nframes),
     ma |-> c.ma]

\* aggregate_activity, first half: the strategy chosen by the track type
calculate_activity(ma, frame_time) ==
    new_activity(ma.track_type, frame_time,
        IF ma.track_type = distance THEN calculate_distances(ma)
        ELSE IF ma.track_type = beam_crossings THEN calculate_vbm(ma)
        ELSE calculate_position(ma))

\* aggregate_activity, second half: a new pending row, or merged into it
store_activity(c, index) ==
    IF Len(c.ma.tracking_data_buffer) <= index
    THEN [c.ma EXCEPT !.tracking_data_buffer = Append(@, c.activity)]
    ELSE [c.ma EXCEPT !.tracking_data_buffer[index + 1] = aggregate_with(@, c.activity)]

\* MonitoredArea.aggregate_activity
aggregate_activity(ma, frame_time) ==
    store_activity(calculate_activity(ma, frame_time), ma.tracking_data_buffer_index)

\* mutant: the buffered rows are written last row first
write_activity_per_monitor_reversed(ma, monitor_index, start_lineno, start_roi_index, end_roi_index) ==
    [k \in 1..Len(ma.tracking_data_buffer) |->
        LET activity == ma.tracking_data_buffer[Len(ma.tracking_data_buffer) + 1 - k]
        IN  [lineno |-> start_lineno + k,
             frame_time |-> activity.frame_time,
             track_type |-> ma.track_type,
             monitor |-> monitor_index,
             values |-> format_values(activity, start_roi_index, end_roi_index, n_rois(ma), 0),
             activity |-> activity]]

\* MonitoredArea._write_activity_per_monitor: the lines appended to one file
write_activity_per_monitor(ma, monitor_index, start_lineno, start_roi_index, end_roi_index) ==
    LET n_monitor_rois == Min(end_roi_index, n_rois(ma)) - start_roi_index
        extension == IF ma.extend /\ n_monitor_rois < ROIS_PER_MONITOR
                     THEN ROIS_PER_MONITOR - n_monitor_rois ELSE 0
    IN  [k \in 1..Len(ma.tracking_data_buffer) |->
            LET activity == ma.tracking_data_buffer[k]
            IN  [lineno |-> start_lineno + k,
                 frame_time |-> activity.frame_time,
                 track_type |-> ma.track_type,
                 monitor |-> monitor_index,
                 values |-> format_values(activity, start_roi_index, end_roi_index,
                                          n_rois(ma), extension),
                 activity |-> activity]]

\* mutant: the running line number is not advanced by a write
write_activity_same_lineno(ma) ==
    reset_tracking_data_buffer(
        IF ma.output_filename
        THEN [ma EXCEPT
                !.files = [mi \in DOMAIN ma.files |->
                    ma.files[mi] \o write_activity_per_monitor(ma, mi, ma.lineno,
                        mi * ROIS_PER_MONITOR, (mi + 1) * ROIS_PER_MONITOR)]]
        ELSE ma)

\* MonitoredArea.write_activity
write_activity(ma) ==
    LET written ==
            IF ma.output_filename
            THEN [ma EXCEPT
                    !.files = [mi \in DOMAIN ma.files |->
                        ma.files[mi] \o write_activity_per_monitor(ma, mi, ma.lineno,
                            mi * ROIS_PER_MONITOR, (mi + 1) * ROIS_PER_MONITOR)],
                    !.lineno = ma.lineno + Len(ma.tracking_data_buffer)]
            ELSE ma
    IN  reset_tracking_data_buffer(written)

\* the frame append that ends update_frame_activity
append_frame(ma) ==
    [ma EXCEPT
        !.aggregated_frames_fly_coord =
            [r \in DOMAIN @ |->
                [@[r] EXCEPT ![ma.aggregated_frames_buffer_index] = ma.current_frame_fly_coord[r]]],
        !.aggregated_frames_buffer_index = @ + 1,
        !.aggregated_frame_index = @ + 1]

\* mutant: the interval test is off by one frame
interval_reached_late(ma) == ma.aggregated_frame_index > ma.aggregated_frames

\* update_frame_activity: the logical frame counter has reached the interval
interval_reached(ma) == ma.aggregated_frame_index >= ma.aggregated_frames

\* mutant: the window is taken as full one frame late
window_full_late(ma) == ma.aggregated_frames_buffer_index > ma.aggregated_frames_size

\* update_frame_activity: the window buffer has reached its limit
window_full(ma) == ma.aggregated_frames_buffer_index >= ma.aggregated_frames_size

\* mutant: a full row buffer takes one more row
buffer_has_room_when_full(ma) == Len(ma.tracking_data_buffer) <= ma.tracking_data_buffer_size

\* update_frame_activity: there is room in the row buffer
buffer_has_room(ma) == Len(ma.tracking_data_buffer) < ma.tracking_data_buffer_size

\* mutant: a row that is buffered leaves the frame index as it is
complete_row_without_reset(aggregated) ==
    IF buffer_has_room(aggregated)
    THEN [aggregated EXCEPT !.tracking_data_buffer_index = @ + 1]
    ELSE write_activity(aggregated)

\* update_frame_activity, after the interval's aggregate_activity: buffer the
\* row or write the buffer, then reset the frame index
complete_row(aggregated) ==
    [(IF buffer_has_room(aggregated)
      THEN [aggregated EXCEPT !.tracking_data_buffer_index = @ + 1]
      ELSE write_activity(aggregated))
     EXCEPT !.aggregated_frame_index = 0]

\* MonitoredArea.update_frame_activity
update_frame_activity(ma, frame_time) ==
    append_frame(
        IF interval_reached(ma)
        THEN complete_row(aggregate_activity(ma, frame_time))
        ELSE IF window_full(ma)
        THEN aggregate_activity(ma, frame_time)
        ELSE ma)

(***************************************************************************)
(* The state of one run of process_image_frames                            *)
(***************************************************************************)
VARIABLES
    monitored_areas,   \* the MonitoredArea objects, in list order
    image_source,      \* the MovieFile: cursor, bounds, decoder position
    mp_pool_size,      \* the mp_pool_size argument
    running_flag,      \* what cancel_callback returns when it is called
    pc,                \* where process_image_frames is
    frame,             \* the frame _next_image_frame yielded last
    queue,             \* ROI tasks submitted and not yet started
    workers,           \* the ROI task each worker is running, or NoTask
    area_index,        \* position of the update / flush loop in monitored_areas
    disk,              \* the ROI files written by save_rois, by file name
    tracker,           \* the tracker program: its arguments, configuration and runs
    hist               \* history: what has been called so far

vars == <<monitored_areas, image_source, mp_pool_size, running_flag, pc, frame,
          queue, workers, area_index, disk, tracker, hist>>

\* the tracker program before main has run
NoTracker == [pc |-> "none"]

NoTask == [area |-> 0]
NoFrame == [index |-> -1, time |-> -1, image |-> <<>>]

(***************************************************************************)
(* Masks (ROI files) and what a frame can show in a ROI                    *)
(***************************************************************************)
\* a ROI taller than wide (horizontal beam) and one wider than tall
RoiTall == << <<10, 20>>, <<16, 20>>, <<16, 28>>, <<10, 28>> >>
RoiWide == << <<20, 20>>, <<28, 20>>, <<28, 26>>, <<20, 26>> >>

\* the r-th of a row of tall ROIs, one every 10 px
RoiAt(r) ==
    << <<10 * r, 20>>, <<10 * r + 6, 20>>, <<10 * r + 6, 28>>, <<10 * r, 28>> >>

MaskFile(maskfile) ==
    IF maskfile = "two" THEN <<RoiTall, RoiWide>>
    ELSE IF maskfile = "none" THEN <<>>
    ELSE IF maskfile = "full" THEN [i \in 1..ROIS_PER_MONITOR |-> RoiAt(i - 1)]
    ELSE IF maskfile = "many" THEN [i \in 1..(ROIS_PER_MONITOR + 1) |-> RoiAt(i - 1)]
    ELSE IF maskfile = "wide" THEN <<RoiWide>>
    ELSE <<RoiTall>>

\* centroids (relative to the ROI) on whole pixels, whose mutual distances
\* are 3, 4 and 5 px, and one a fraction of a pixel off the first
PointA == <<3 * SubPixel, 4 * SubPixel>>
PointB == <<3 * SubPixel, 0>>
PointC == <<3 * SubPixel + 1, 4 * SubPixel + 1>>
PointD == <<5 * SubPixel, 6 * SubPixel>>

\* what _process_roi can find in one ROI of a frame of the movie
Blobs(movie) ==
    IF movie = "one" THEN {None, PointA}
    ELSE IF movie = "fine" THEN {None, PointA, PointC}
    ELSE IF movie = "cross" THEN {None, PointA, PointB, PointD}
    ELSE {None, PointA, PointB}

\* the centroid found per mask file and ROI for the frame at frame_index: any
\* for a free movie, the point moving 1 px per frame for the movie "ramp", the
\* point of ROI r moving down r + 1 px per frame for the movie "fan"
FrameImages(movie, frame_index, maskfiles) ==
    IF movie = "ramp"
    THEN {[m \in maskfiles |-> [r \in 0..(Len(MaskFile(m)) - 1) |-> <<(frame_index + 1) * SubPixel, 0>>]]}
    ELSE IF movie = "fan"
    THEN {[m \in maskfiles |->
            [r \in 0..(Len(MaskFile(m)) - 1) |-> <<0, (frame_index + 1) * (r + 1) * SubPixel>>]]}
    ELSE {img \in [maskfiles -> UNION {[0..(Len(MaskFile(m)) - 1) -> Blobs(movie)] : m \in maskfiles}] :
            \A m \in maskfiles : DOMAIN img[m] = 0..(Len(MaskFile(m)) - 1)}

(***************************************************************************)
(* prepare_monitored_areas                                                 *)
(***************************************************************************)
\* create_monitored_area: construct, filter, load the mask, set the output.
\* The constructor arguments come from the configured area c.
create_monitored_area(c) ==
    LET ma == MonitoredArea(c.track_type, c.aggregated_frames, c.aggregated_frames_size,
                            c.tracking_data_buffer_size, c.extend)
        loaded == load_rois(set_roi_filter(ma, c.roi_filter), MaskFile(c.maskfile))
    IN  [set_output(loaded) EXCEPT !.mask_file = c.maskfile]

prepare_monitored_areas(config) ==
    [i \in 1..Len(config.areas) |-> create_monitored_area(config.areas[i])]

(***************************************************************************)
(* MovieFile                                                               *)
(***************************************************************************)
\* MovieFile after open(): bounds in frames, cursor at the start
MovieFile(movie, nframes) ==
    [movie |-> movie, opened |-> TRUE, start |-> 0, end |-> nframes, step |-> 1,
     total_frames |-> nframes, current_frame |-> 0, pos_frames |-> 0]

\* MovieFile.__init__ with open_source set, then MovieFile.open: the capture
\* reports nframes frames at fps frames per second (none if it could not be
\* opened); a time limit of None is written -1
MovieFile_open(movie, opened, nframes, fps, start_msecs, end_msecs) ==
    LET start_frame == (start_msecs * fps) \div 1000
        end_frame == (end_msecs * fps) \div 1000
        start == IF start_msecs < 0 THEN 0
                 ELSE IF start_frame < nframes THEN start_frame ELSE nframes
        end == IF end_msecs < 0 THEN nframes
               ELSE IF end_frame < nframes THEN end_frame ELSE nframes
    IN  [movie |-> movie, opened |-> opened, start |-> start, end |-> end, step |-> 1,
         total_frames |-> nframes, current_frame |-> start, pos_frames |-> start]

\* mutant: the cursor is set to the index asked for, whatever it is
update_frame_index_unbounded(src, frame_index, ok) ==
    [src EXCEPT !.current_frame = frame_index,
                !.pos_frames = IF ok THEN frame_index + 1 ELSE frame_index]

\* MovieFile.update_frame_index after capture.read() returned ok
update_frame_index(src, frame_index, ok) ==
    LET current_frame == IF frame_index >= src.start /\ frame_index < src.end THEN frame_index
                         ELSE IF frame_index < src.start THEN src.start ELSE src.end
    IN  [src EXCEPT !.current_frame = current_frame,
                    !.pos_frames = IF ok THEN current_frame + 1 ELSE current_frame]

\* MovieFile.get_current_frame_time_in_seconds, in frames
get_current_frame_time(src) == src.pos_frames

\* mutant: the end bound itself is still read
get_image_refused_past_end(src) ==
    ~src.opened \/ src.current_frame < 0 \/ src.current_frame > src.end

\* MovieFile.get_image refuses without touching the decoder
get_image_refused(src) ==
    ~src.opened \/ src.current_frame < 0 \/ src.current_frame >= src.end

\* MovieFile.get_image after capture.read() returned ok
get_image_read(src, ok) ==
    [src EXCEPT !.current_frame = @ + src.step,
                !.pos_frames = IF ok THEN @ + 1 ELSE @]

(***************************************************************************)
(* process_image_frames                                                    *)
(***************************************************************************)
\* _next_monitored_area_roi: the (area, ROI index) pairs in generation order
RECURSIVE rois_of(_, _, _)
rois_of(areas, a, r) ==
    IF r >= n_rois(areas[a]) THEN <<>>
    ELSE (IF is_roi_trackable(areas[a], r) THEN <<[area |-> a, roi |-> r]>> ELSE <<>>)
         \o rois_of(areas, a, r + 1)

RECURSIVE areas_from(_, _)
areas_from(areas, a) ==
    IF a > Len(areas) THEN <<>> ELSE rois_of(areas, a, 0) \o areas_from(areas, a + 1)

\* mutant: every task of an area is handed the area's first ROI
next_monitored_area_first_roi(areas) ==
    [i \in 1..Len(areas_from(areas, 1)) |-> [area |-> areas_from(areas, 1)[i].area, roi |-> 0]]

next_monitored_area_roi(areas) == areas_from(areas, 1)

\* the workers that run ROI tasks: the caller itself when mp_pool_size <= 1
Workers == 1..(IF mp_pool_size <= 1 THEN 1 ELSE mp_pool_size)

\* mutant: the tasks are submitted and the loop goes on without joining them
starmap_returns_at_once == TRUE

\* starmap returns once every submitted task has completed
starmap_returns == queue = <<>> /\ \A w \in Workers : workers[w] = NoTask

\* the part of _process_roi that changes the area: the background
\* accumulator of the ROI and add_fly_coords
process_roi(ma, roi_index, coords) ==
    add_fly_coords([ma EXCEPT !.rois_background[roi_index + 1] = @ + 1], roi_index, coords)

MaskFiles == {monitored_areas[a].mask_file : a \in 1..Len(monitored_areas)}

EmptyHist(areas) ==
    [ frames |-> 0, polls |-> 0, reads |-> 0, refused |-> FALSE, cancelled_at |-> "",
      started |-> [a \in 1..Len(areas) |-> [r \in 0..(n_rois(areas[a]) - 1) |-> 0]],
      added |-> [a \in 1..Len(areas) |-> [r \in 0..(n_rois(areas[a]) - 1) |-> 0]],
      returned |-> [a \in 1..Len(areas) |-> [r \in 0..(n_rois(areas[a]) - 1) |->
                        [point |-> <<0, 0>>, distance |-> 0]]],
      updated |-> [a \in 1..Len(areas) |-> 0],
      final_aggregate |-> [a \in 1..Len(areas) |-> 0],
      final_write |-> [a \in 1..Len(areas) |-> 0],
      last |-> [a \in 1..Len(areas) |-> [r \in 0..(n_rois(areas[a]) - 1) |-> <<0, 0>>]],
      path |-> [a \in 1..Len(areas) |-> [r \in 0..(n_rois(areas[a]) - 1) |-> 0]],
      side |-> [a \in 1..Len(areas) |-> [r \in 0..(n_rois(areas[a]) - 1) |-> 0]],
      sign_changes |-> [a \in 1..Len(areas) |-> [r \in 0..(n_rois(areas[a]) - 1) |-> 0]],
      loads |-> 0, loaded |-> <<0, "">>, raised |-> "",
      got |-> <<>>, sought |-> FALSE, seek_index |-> 0,
      decoders |-> <<>>, fed |-> <<>>, writes |-> 0,
      saved |-> [f \in FileNames |-> [rois |-> <<>>, counts |-> <<>>, intact |-> FALSE]] ]

InitWith(configs) ==
    \E config \in configs :
        /\ monitored_areas = prepare_monitored_areas(config)
        /\ image_source = MovieFile(config.movie, config.nframes)
        /\ mp_pool_size = config.mp_pool_size
        /\ running_flag = TRUE
        /\ pc = "poll"
        /\ frame = NoFrame
        /\ queue = <<>>
        /\ workers = [w \in 1..(IF config.mp_pool_size <= 1 THEN 1 ELSE config.mp_pool_size) |-> NoTask]
        /\ area_index = 1
        /\ disk = NoDisk
        /\ tracker = NoTracker
        /\ hist = EmptyHist(prepare_monitored_areas(config))

\* the user cancels: from now on cancel_callback returns false
Cancel ==
    /\ pc # "done"
    /\ running_flag
    /\ running_flag' = FALSE
    /\ hist' = [hist EXCEPT !.cancelled_at = pc]
    /\ UNCHANGED <<monitored_areas, image_source, mp_pool_size, disk, tracker, pc, frame, queue,
                   workers, area_index>>

\* _next_image_frame: not_cancelled(), i.e. cancel_callback()
not_cancelled == running_flag

\* mutant: a cancelled run returns without the final flush
after_loop_return_if_cancelled(cancelled) == IF cancelled THEN "done" ELSE "flush"

\* mutant: process_image_frames returns when the frame loop has ended
after_loop_return(cancelled) == "done"

\* process_image_frames: where control goes when the frame loop has ended
after_loop(cancelled) == "flush"

\* mutant: the loop goes on whatever not_cancelled() returned
while_true(result) == "read"

\* _next_image_frame: the while test on what not_cancelled() returned
while_not_cancelled(result) == IF result THEN "read" ELSE after_loop(TRUE)

\* _next_image_frame: while not_cancelled()
Poll ==
    /\ pc = "poll"
    /\ pc' = while_not_cancelled(not_cancelled)
    /\ area_index' = 1
    /\ hist' = [hist EXCEPT !.polls = @ + 1, !.refused = ~not_cancelled]
    /\ UNCHANGED <<monitored_areas, image_source, mp_pool_size, disk, tracker, running_flag, frame,
                   queue, workers>>

\* _next_image_frame: the frame time, get_image, break or yield
NextImageFrame ==
    /\ pc = "read"
    /\ IF get_image_refused(image_source)
       THEN /\ pc' = after_loop(FALSE)
            /\ hist' = [hist EXCEPT !.reads = @ + 1]
            /\ UNCHANGED <<image_source, frame, tracker>>
       ELSE \E ok \in BOOLEAN :
            /\ image_source' = get_image_read(image_source, ok)
            /\ IF ok
               THEN /\ \E img \in FrameImages(image_source.movie, image_source.current_frame, MaskFiles) :
                        frame' = [index |-> image_source.current_frame,
                                  time |-> get_current_frame_time(image_source),
                                  image |-> img]
                    /\ pc' = "dispatch"
                    /\ hist' = [hist EXCEPT !.reads = @ + 1, !.frames = @ + 1]
               ELSE /\ pc' = after_loop(FALSE)
                    /\ hist' = [hist EXCEPT !.reads = @ + 1]
                    /\ UNCHANGED frame
    /\ area_index' = 1
    /\ UNCHANGED <<monitored_areas, mp_pool_size, disk, tracker, running_flag, queue, workers>>

\* starmap(_process_roi, _next_monitored_area_roi(monitored_areas)): submit
Dispatch ==
    /\ pc = "dispatch"
    /\ queue' = queue \o
            [i \in 1..Len(next_monitored_area_roi(monitored_areas)) |->
                LET t == next_monitored_area_roi(monitored_areas)[i]
                IN  [area |-> t.area, roi |-> t.roi, frame |-> frame.index,
                     coords |-> frame.image[monitored_areas[t.area].mask_file][t.roi]]]
    /\ pc' = "rois"
    /\ UNCHANGED <<monitored_areas, image_source, mp_pool_size, disk, tracker, running_flag, frame,
                   workers, area_index, hist>>

\* a free worker takes the next task: _process_roi starts
StartTask(w) ==
    /\ queue # <<>>
    /\ workers[w] = NoTask
    /\ workers' = [workers EXCEPT ![w] = Head(queue)]
    /\ queue' = Tail(queue)
    /\ hist' = [hist EXCEPT !.started[Head(queue).area][Head(queue).roi] = @ + 1]
    /\ UNCHANGED <<monitored_areas, image_source, mp_pool_size, disk, tracker, running_flag, pc, frame,
                   area_index>>

\* _process_roi completes: background accumulator written, add_fly_coords done
FinishTask(w) ==
    /\ workers[w] # NoTask
    /\ LET t == workers[w]
       IN  /\ monitored_areas' = [monitored_areas EXCEPT
                    ![t.area] = process_roi(@, t.roi, t.coords)]
           /\ hist' = [hist EXCEPT
                    !.added[t.area][t.roi] = @ + 1,
                    !.returned[t.area][t.roi] =
                        add_fly_coords_returns(monitored_areas[t.area], t.roi, t.coords)]
    /\ workers' = [workers EXCEPT ![w] = NoTask]
    /\ UNCHANGED <<image_source, mp_pool_size, disk, tracker, running_flag, pc, frame, queue, area_index>>

\* starmap returns (frame_callback runs here)
Join ==
    /\ pc = "rois"
    /\ starmap_returns
    /\ pc' = IF Len(monitored_areas) = 0 THEN "poll" ELSE "update"
    /\ area_index' = 1
    /\ UNCHANGED <<monitored_areas, image_source, mp_pool_size, disk, tracker, running_flag, frame,
                   queue, workers, hist>>

\* update_monitored_area_activity for the next area of the list
UpdateMonitoredAreaActivity ==
    /\ pc = "update"
    /\ LET a == area_index
           ma == monitored_areas[a]
       IN  /\ monitored_areas' = [monitored_areas EXCEPT
                    ![a] = update_frame_activity(ma, frame.time)]
           /\ hist' = [hist EXCEPT
                    !.updated[a] = @ + 1,
                    !.last[a] = ma.current_frame_fly_coord,
                    !.path[a] = [r \in DOMAIN @ |->
                        IF hist.updated[a] = 0 THEN 0
                        ELSE @[r] + Distance(hist.last[a][r], ma.current_frame_fly_coord[r])],
                    !.side[a] = [r \in DOMAIN @ |->
                        IF BeamSide(ma, r, ma.current_frame_fly_coord[r]) = 0 THEN @[r]
                        ELSE BeamSide(ma, r, ma.current_frame_fly_coord[r])],
                    !.sign_changes[a] = [r \in DOMAIN @ |->
                        IF BeamSide(ma, r, ma.current_frame_fly_coord[r]) * hist.side[a][r] < 0
                        THEN @[r] + 1 ELSE @[r]]]
    /\ area_index' = area_index + 1
    /\ pc' = IF area_index = Len(monitored_areas) THEN "poll" ELSE "update"
    /\ UNCHANGED <<image_source, mp_pool_size, disk, tracker, running_flag, frame, queue, workers>>

\* after the loop: aggregate_activity and write_activity for the next area
FlushMonitoredArea ==
    /\ pc = "flush"
    /\ area_index <= Len(monitored_areas)
    /\ LET a == area_index
           frame_time_pos == get_current_frame_time(image_source)
       IN  /\ monitored_areas' = [monitored_areas EXCEPT
                    ![a] = write_activity(aggregate_activity(@, frame_time_pos))]
           /\ hist' = [hist EXCEPT !.final_aggregate[a] = @ + 1, !.final_write[a] = @ + 1]
    /\ area_index' = area_index + 1
    /\ pc' = IF area_index = Len(monitored_areas) THEN "done" ELSE "flush"
    /\ UNCHANGED <<image_source, mp_pool_size, disk, tracker, running_flag, frame, queue, workers>>

Next ==
    \/ Cancel
    \/ Poll
    \/ NextImageFrame
    \/ Dispatch
    \/ \E w \in Workers : StartTask(w)
    \/ \E w \in Workers : FinishTask(w)
    \/ Join
    \/ UpdateMonitoredAreaActivity
    \/ FlushMonitoredArea

(***************************************************************************)
(* Specifications: the same pipeline over different sets of runs           *)
(***************************************************************************)
TrackingTypes == {distance, beam_crossings, position}

AreaConfig(maskfile, track_type, aggregated_frames, aggregated_frames_size, tracking_data_buffer_size, roi_filter) ==
    [maskfile |-> maskfile, track_type |-> track_type,
     aggregated_frames |-> aggregated_frames,
     aggregated_frames_size |-> aggregated_frames_size,
     tracking_data_buffer_size |-> tracking_data_buffer_size,
     roi_filter |-> roi_filter, extend |-> FALSE]

\* one area with one ROI, every constructor argument in its bounds (0 takes
\* the constructor's fallback), frames that show any of three outcomes
AreaRuns ==
    { [areas |-> <<AreaConfig("tall", t, i, c, b, None)>>,
       movie |-> "free", nframes |-> MaxFrames, mp_pool_size |-> 1] :
        t \in TrackingTypes, i \in 0..MaxInterval, c \in 0..MaxCap, b \in 1..MaxBufSize }

Init == InitWith(AreaRuns)

Spec == Init /\ [][Next]_vars

(***************************************************************************)
(* What the claims speak about                                             *)
(***************************************************************************)
Areas == 1..Len(monitored_areas)
Rois(a) == 0..(n_rois(monitored_areas[a]) - 1)

\* the lines of the area's (first) output file
Rows(a) == monitored_areas[a].files[0]

\* sum of the values of ROI r over a sequence of rows or lines
RowSum(rows, r) == SumTo([k \in 0..(Len(rows) - 1) |-> rows[k + 1].values[r]], Len(rows))

\* the window steps consumed by a sequence of lines
StepSum(lines) ==
    SumTo([k \in 0..(Len(lines) - 1) |-> lines[k + 1].activity.nframes], Len(lines))

\* the consecutive-frame distances still in the window of ROI r
WindowPath(ma, r) ==
    SumTo([j \in 0..(ma.aggregated_frames_size - 1) |->
              Distance(ma.aggregated_frames_fly_coord[r][j], Following(ma, r, j))],
          ma.aggregated_frames_buffer_index - 1)

(***************************************************************************)
(* C1. Row count.                                                          *)
(***************************************************************************)
\* C1 as claimed: when a run of N >= 0 frames has ended, every area with
\* aggregation interval I has ceil(N / I) rows in its output file.
C1_RowCountAnyN ==
    pc = "done" =>
        \A a \in Areas :
            Len(Rows(a)) = CeilDiv(hist.updated[a], monitored_areas[a].aggregated_frames)

\* C1 amended: for N >= 1 fed frames the file holds ceil(N / I) rows, and the
\* last row covers fewer than I window steps when N is not a multiple of I;
\* for N = 0 the final flush still writes one row.
C1_RowCount ==
    pc = "done" =>
        \A a \in Areas :
            LET N == hist.updated[a]
                I == monitored_areas[a].aggregated_frames
                rows == Rows(a)
            IN  /\ N = hist.frames
                /\ Len(rows) = IF N = 0 THEN 1 ELSE CeilDiv(N, I)
                /\ N >= 1 =>
                     rows[Len(rows)].activity.nframes =
                        N - I * (Len(rows) - 1) - (IF Len(rows) = 1 THEN 1 ELSE 0)
                /\ (N >= 1 /\ N % I # 0) => rows[Len(rows)].activity.nframes < I

\* a run of MaxFrames frames with a partial last interval and a window
\* smaller than the interval
C1_Witness ==
    /\ pc = "done"
    /\ hist.frames = MaxFrames
    /\ monitored_areas[1].aggregated_frames = MaxFrames - 1
    /\ monitored_areas[1].aggregated_frames_size = 2
    /\ Len(Rows(1)) = 2

(***************************************************************************)
(* C3. Distance conservation.                                              *)
(***************************************************************************)
\* C3: in Distance mode, at every moment, the values of a ROI over the rows
\* written, the rows buffered and the steps still in the window add up to
\* the sum of the distances between consecutive frames fed so far; when the
\* run has ended the rows on disk alone add up to it.
C3_DistanceConserved ==
    \A a \in Areas :
        monitored_areas[a].track_type = distance =>
            \A r \in Rois(a) :
                /\ RowSum(Rows(a), r) + RowSum(monitored_areas[a].tracking_data_buffer, r)
                      + WindowPath(monitored_areas[a], r) = hist.path[a][r]
                /\ pc = "done" => RowSum(Rows(a), r) = hist.path[a][r]

\* a Distance run that moved, ended with several rows on disk, one of them
\* merged from partial aggregates
C3_Witness ==
    /\ pc = "done"
    /\ monitored_areas[1].track_type = distance
    /\ hist.path[1][0] >= 12
    /\ Len(Rows(1)) >= 2
    /\ \E k \in 1..Len(Rows(1)) : Rows(1)[k].activity.parts >= 2

ScenarioRuns ==
    { [areas |-> <<AreaConfig("tall", distance, 50, 50, 5, None)>>,
       movie |-> "ramp", nframes |-> 100, mp_pool_size |-> 1] }

InitScenario == InitWith(ScenarioRuns)

SpecScenario == InitScenario /\ [][Next]_vars

\* the 100 frames were all read and processed and the run has ended
ScenarioDone == pc = "done" /\ hist.frames = 100 /\ hist.updated[1] = 100

\* C2 as claimed: the 100-frame run leaves exactly 2 rows, each with
\* distance 49.
C2_TwoRowsOf49 ==
    ScenarioDone =>
        /\ Len(Rows(1)) = 2
        /\ Rows(1)[1].values[0] = 49
        /\ Rows(1)[2].values[0] = 49

\* C2 amended: the 100-frame run leaves exactly 2 rows; the first has
\* distance 49 and the second, which also holds the step from frame 49 to
\* frame 50, has distance 50.
C2_TwoRows49And50 ==
    ScenarioDone =>
        /\ Len(Rows(1)) = 2
        /\ Rows(1)[1].values[0] = 49
        /\ Rows(1)[2].values[0] = 50

\* the scenario ran to its end without a cancellation and the point moved
\* 99 px in all
C2_Witness ==
    /\ ScenarioDone
    /\ ~hist.refused
    /\ hist.path[1][0] = 99
    /\ Len(Rows(1)) = 2

(***************************************************************************)
(* C4. The window cap is transparent.                                      *)
(***************************************************************************)
\* two areas over the same mask file, so both see the same points, with the
\* same track type, interval and row buffer: the first with a window cap
\* below the interval, the second with a cap of at least the interval
CapRuns ==
    { [areas |-> <<AreaConfig("tall", t, i, c1, b, None), AreaConfig("tall", t, i, c2, b, None)>>,
       movie |-> "free", nframes |-> MaxFrames, mp_pool_size |-> 1] :
        t \in TrackingTypes, i \in 2..MaxInterval, c1 \in 1..MaxCap, c2 \in 2..MaxInterval,
        b \in 1..MaxBufSize }

InitCap ==
    /\ InitWith(CapRuns)
    /\ monitored_areas[1].aggregated_frames_size - 1 < monitored_areas[1].aggregated_frames
    /\ monitored_areas[2].aggregated_frames_size - 1 >= monitored_areas[2].aggregated_frames

SpecCap == InitCap /\ [][Next]_vars

\* the rows an area has emitted: the lines written, then the completed rows
\* still in the row buffer; each with its end time and its values
Emitted(a) ==
    [k \in 1..Len(Rows(a)) |->
        [frame_time |-> Rows(a)[k].frame_time, values |-> Rows(a)[k].values]]
    \o [k \in 1..monitored_areas[a].tracking_data_buffer_index |->
        [frame_time |-> monitored_areas[a].tracking_data_buffer[k].frame_time,
         values |-> monitored_areas[a].tracking_data_buffer[k].values]]

\* both areas have been fed, and flushed, the same frames
SameFrames ==
    /\ hist.updated[1] = hist.updated[2]
    /\ hist.final_write[1] = hist.final_write[2]

\* C4: after the same frames, the area whose window cap is below the interval
\* has emitted as many rows as the area whose cap is at least the interval,
\* with the same end times and, for Distance and BeamCrossings, the same values.
C4_CapTransparent ==
    SameFrames =>
        /\ Len(Emitted(1)) = Len(Emitted(2))
        /\ \A k \in 1..Len(Emitted(1)) :
            /\ Emitted(1)[k].frame_time = Emitted(2)[k].frame_time
            /\ monitored_areas[1].track_type \in {distance, beam_crossings} =>
                    Emitted(1)[k].values = Emitted(2)[k].values

\* a finished run in which the capped area merged partial aggregates into a
\* row with a non-zero value, and wrote another row after it
C4_Witness ==
    /\ pc = "done"
    /\ monitored_areas[1].track_type \in {distance, beam_crossings}
    /\ Len(Rows(1)) >= 2
    /\ Rows(1)[1].activity.parts >= 2
    /\ Rows(2)[1].activity.parts = 1
    /\ Rows(1)[1].values[0] > 0
    /\ Rows(1)[1].frame_time < Rows(1)[2].frame_time

(***************************************************************************)
(* C6. Position rows merged from partial aggregates.                       *)
(***************************************************************************)
\* the AveragePosition records of an area: buffered, and written
PositionRecords(a) ==
    {monitored_areas[a].tracking_data_buffer[k] :
        k \in 1..Len(monitored_areas[a].tracking_data_buffer)}
    \cup {Rows(a)[k].activity : k \in 1..Len(Rows(a))}

\* the count-weighted mean of the partial means merged into a record
WeightedMeanOfParts(rec, r) ==
    <<Rat(rec.weighted[r][1], rec.nframes), Rat(rec.weighted[r][2], rec.nframes)>>

\* C6: in Position mode every record merged from k >= 2 partial aggregates
\* carries the total number of samples merged so far as its sample count, and
\* its value is the count-weighted mean of the partial means merged into it.
C6_PositionMerge ==
    \A a \in Areas :
        monitored_areas[a].track_type = position =>
            \A rec \in PositionRecords(a) :
                rec.parts >= 2 =>
                    /\ rec.n_values = rec.nframes
                    /\ \A r \in Rois(a) : rec.values[r] = WeightedMeanOfParts(rec, r)

(***************************************************************************)
(* C7. Merge associativity.                                                *)
(***************************************************************************)
\* the window of an area cut after its slot k: aggregate slots 0..k, aggregate
\* the rest (which starts at slot k, as after the first part's shift), merge
SplitAndMerge(ma, k, frame_time) ==
    aggregate_with(
        calculate_activity([ma EXCEPT !.aggregated_frames_buffer_index = k + 1], frame_time).activity,
        calculate_activity(shift_data_window(ma, k), frame_time).activity)

\* C7: for every area (Distance, BeamCrossings or Position), every window
\* the area holds and every split point inside it, aggregating the two parts
\* and merging them gives every ROI the value that aggregating the whole
\* window gives it.
C7_MergeAssociative ==
    \A a \in Areas :
        \A k \in 1..(monitored_areas[a].aggregated_frames_buffer_index - 2) :
            SplitAndMerge(monitored_areas[a], k, 0).values
                = calculate_activity(monitored_areas[a], 0).activity.values

(***************************************************************************)
(* The pipeline with several areas, ROI filters and a worker pool          *)
(***************************************************************************)
\* two areas, the first with two ROIs and any of three trackable filters,
\* every pool size in the bounds, a movie whose point moves on every frame
PipelineRuns ==
    { [areas |-> <<AreaConfig("two", distance, 2, 2, 1, f), AreaConfig("wide", position, i, 1, 1, None)>>,
       movie |-> "ramp", nframes |-> MaxFrames, mp_pool_size |-> p] :
        f \in {None, <<0>>, <<1>>}, i \in 1..2, p \in 1..MaxPool }

InitPipeline == InitWith(PipelineRuns)

SpecPipeline == InitPipeline /\ [][Next]_vars

\* the ROI tasks submitted and not completed
Running == {workers[w] : w \in Workers} \ {NoTask}
Pending == {queue[i] : i \in 1..Len(queue)} \cup Running

\* the trackable ROIs of an area
Trackable(a) == {r \in Rois(a) : is_roi_trackable(monitored_areas[a], r)}

\* the frame loop is between two frames, or over
BetweenFrames == pc \in {"poll", "read", "flush", "done"}

(***************************************************************************)
(* C8. Cooperative cancellation.                                           *)
(***************************************************************************)
\* every frame read so far has gone through all its ROI tasks and updates
FramesComplete ==
    \A a \in Areas :
        /\ hist.updated[a] = hist.frames
        /\ \A r \in Trackable(a) :
            hist.started[a][r] = hist.frames /\ hist.added[a][r] = hist.frames

\* what holds of the polls in every state
PolledAtLoopTop ==
    /\ hist.polls = hist.reads + (IF pc = "read" \/ hist.refused THEN 1 ELSE 0)
    /\ hist.frames <= hist.reads
    /\ hist.refused => (pc \in {"flush", "done"} /\ Pending = {})
    /\ BetweenFrames => FramesComplete

\* what holds of every step: a frame is pulled only after its own poll, the
\* loop is left only from its top, and nothing starts after a refusal
NothingAfterRefusal ==
    /\ hist'.reads # hist.reads => (pc = "read" /\ hist.polls = hist.reads + 1)
    /\ (pc' = "flush" /\ pc # "flush") => pc \in {"poll", "read"}
    /\ hist.refused =>
        /\ image_source' = image_source
        /\ hist'.polls = hist.polls
        /\ hist'.reads = hist.reads
        /\ hist'.started = hist.started
        /\ hist'.updated = hist.updated

\* C8: the predicate is polled once per frame, at the top of the loop and
\* before the frame is pulled; once it has returned false no frame is read
\* and no ROI task or update_frame_activity starts; a cancellation that comes
\* while a frame is in flight leaves that frame to complete all its ROI
\* tasks and updates before the loop is left.
C8_CooperativeCancel == [](PolledAtLoopTop) /\ [][NothingAfterRefusal]_vars

\* a run cancelled while the ROI tasks of its second frame were in flight:
\* that frame was completed, then the poll refused and the run ended
C8_Witness ==
    /\ pc = "done"
    /\ hist.cancelled_at = "rois"
    /\ hist.refused
    /\ hist.frames = 2
    /\ hist.reads = 2
    /\ FramesComplete

(***************************************************************************)
(* C9. Frame barrier.                                                      *)
(***************************************************************************)
\* C9: for every pool size, the ROI tasks pending are all of the current
\* frame and the next frame's tasks are submitted when none is pending; an
\* area is updated at most once per frame and exactly once when the frame
\* is over, only after every add_fly_coords of the frame; and a task of a
\* frame starts only after every task and every update of the frame before.
C9_FrameBarrier ==
    /\ \A t \in Pending : t.frame = frame.index
    /\ pc = "dispatch" => Pending = {}
    /\ \A a \in Areas :
        /\ hist.updated[a] <= hist.frames
        /\ hist.frames <= hist.updated[a] + 1
        /\ BetweenFrames => hist.updated[a] = hist.frames
        /\ \A r \in Trackable(a) :
            /\ hist.added[a][r] <= hist.started[a][r]
            /\ hist.started[a][r] <= hist.frames
            /\ (hist.frames >= 1 /\ hist.updated[a] = hist.frames) =>
                    hist.added[a][r] = hist.frames
            /\ (hist.frames >= 1 /\ hist.started[a][r] = hist.frames) =>
                    \A a2 \in Areas :
                        /\ hist.updated[a2] >= hist.frames - 1
                        /\ \A r2 \in Trackable(a2) : hist.added[a2][r2] >= hist.frames - 1

\* a pool of two workers, both running ROI tasks of the second frame
C9_Witness ==
    /\ mp_pool_size = 2
    /\ hist.frames = 2
    /\ workers[1] # NoTask
    /\ workers[2] # NoTask
    /\ workers[1].frame = 1
    /\ workers[2].frame = 1

(***************************************************************************)
(* C10. Exclusive ownership of a ROI's state.                              *)
(***************************************************************************)
\* what holds in every state: the pending tasks are for distinct ROIs, a
\* trackable ROI has had at most one task per frame and one write of its
\* background accumulator per task, a ROI that is filtered out is never touched
OneTaskPerRoi ==
    /\ Cardinality({<<t.area, t.roi>> : t \in Pending}) = Len(queue) + Cardinality({w \in Workers : workers[w] # NoTask})
    /\ \A a \in Areas : \A r \in Rois(a) :
        IF r \in Trackable(a)
        THEN /\ hist.started[a][r] <= hist.frames
             /\ monitored_areas[a].rois_background[r + 1] = hist.added[a][r]
             /\ BetweenFrames => hist.added[a][r] = hist.frames
        ELSE /\ hist.started[a][r] = 0
             /\ monitored_areas[a].rois_background[r + 1] = 0
             /\ monitored_areas[a].current_frame_fly_coord[r] = <<0, 0>>

\* what holds of every step: the accumulator and the current point of a ROI
\* change only when the task of that ROI completes
OwnTaskOnly ==
    \A a \in Areas : \A r \in Rois(a) :
        (\/ monitored_areas'[a].rois_background[r + 1] # monitored_areas[a].rois_background[r + 1]
         \/ monitored_areas'[a].current_frame_fly_coord[r] # monitored_areas[a].current_frame_fly_coord[r])
        => \E w \in Workers :
                /\ workers[w] # NoTask
                /\ workers[w].area = a
                /\ workers[w].roi = r
                /\ workers'[w] = NoTask

\* C10: within a frame, for every pool size and every trackable filter, the
\* background accumulator and the current point of a (MonitoredArea, ROI) are
\* touched by exactly one ROI task, and no two tasks that run at the same
\* time are for the same ROI.
C10_ExclusiveOwnership == [](OneTaskPerRoi) /\ [][OwnTaskOnly]_vars

\* two workers running, at the same time, the tasks of the two ROIs of the
\* first area, in a frame after the first
C10_Witness ==
    /\ hist.frames >= 2
    /\ workers[1] # NoTask
    /\ mp_pool_size >= 2
    /\ workers[2] # NoTask
    /\ workers[1].area = 1
    /\ workers[2].area = 1
    /\ workers[1].roi # workers[2].roi

(***************************************************************************)
(* C11. Rows in time order.                                                *)
(***************************************************************************)
\* C11: in every output file of every area, each row's end time is strictly
\* greater than the end time of the row before it, whichever write_activity
\* call wrote them, the row of the final flush included.
C11_RowsInTimeOrder ==
    \A a \in Areas :
        \A mi \in DOMAIN monitored_areas[a].files :
            \A k \in 1..(Len(monitored_areas[a].files[mi]) - 1) :
                monitored_areas[a].files[mi][k].frame_time
                    < monitored_areas[a].files[mi][k + 1].frame_time

\* a finished run that wrote four rows in two write_activity calls, the last
\* of them the call of the final flush
C11_Witness ==
    /\ pc = "done"
    /\ monitored_areas[1].tracking_data_buffer_size = 2
    /\ hist.final_write[1] = 1
    /\ Len(Rows(1)) = 4
    /\ Rows(1)[4].frame_time = hist.frames

(***************************************************************************)
(* Areas of 0, 2, 32 and 33 ROIs, with and without extend and filters      *)
(***************************************************************************)
\* one area over a mask file of 0, 2, 32 or 33 ROIs, every track type, with
\* and without extend, unfiltered or tracking only some ROIs, a movie in
\* which every ROI moves at its own pace
ColumnFilters == {None, <<1>>, <<0, ROIS_PER_MONITOR>>}

ColumnRuns ==
    { [areas |-> <<[AreaConfig(m, t, i, 2, b, f) EXCEPT !.extend = e]>>,
       movie |-> "fan", nframes |-> MaxFrames, mp_pool_size |-> 1] :
        m \in {"none", "two", "full", "many"}, t \in TrackingTypes, i \in 1..2, b \in 1..MaxBufSize,
        f \in ColumnFilters, e \in BOOLEAN }

InitColumns == InitWith(ColumnRuns)

SpecColumns == InitColumns /\ [][Next]_vars

(***************************************************************************)
(* C12. The running line number.                                           *)
(***************************************************************************)
\* C12: in every chunk file of an area the k-th row carries line number k,
\* whatever number of write_activity calls wrote the rows; every chunk file
\* holds as many rows as the area's running line number says, and the k-th
\* rows of the chunk files are rows of the same record.
C12_LineNumbers ==
    \A a \in Areas :
        \A mi \in DOMAIN monitored_areas[a].files :
            /\ Len(monitored_areas[a].files[mi]) = monitored_areas[a].lineno
            /\ \A k \in 1..Len(monitored_areas[a].files[mi]) :
                /\ monitored_areas[a].files[mi][k].lineno = k
                /\ monitored_areas[a].files[mi][k].activity = monitored_areas[a].files[0][k].activity

\* an area of 33 ROIs, hence two chunk files, that wrote its four rows one
\* write_activity call per row
C12_Witness ==
    /\ pc = "done"
    /\ n_rois(monitored_areas[1]) = ROIS_PER_MONITOR + 1
    /\ DOMAIN monitored_areas[1].files = {0, 1}
    /\ monitored_areas[1].tracking_data_buffer_size = 1
    /\ Len(monitored_areas[1].files[1]) = 4
    /\ monitored_areas[1].files[1][4].lineno = 4

(***************************************************************************)
(* C13. Monitor chunking.                                                  *)
(***************************************************************************)
\* the value a padding column shows
ZeroValue(track_type) == IF track_type = position THEN <<RatInt(0), RatInt(0)>> ELSE 0

\* the number of ROIs of chunk mi of an area of n ROIs
ChunkSize(n, mi) == Min(ROIS_PER_MONITOR * mi + ROIS_PER_MONITOR, n) - ROIS_PER_MONITOR * mi

\* C13: an area of n ROIs has ceil(n / 32) output files; in every row of
\* chunk file mi the columns are, in ROI index order, the values of the ROIs
\* 32 mi .. min(32 mi + 32, n) - 1 of the row's record, followed when
\* extend is set by zeros up to 32 columns, and by nothing when it is not.
C13_MonitorChunks ==
    \A a \in Areas :
        LET ma == monitored_areas[a]
        IN  /\ DOMAIN ma.files = 0..(CeilDiv(n_rois(ma), ROIS_PER_MONITOR) - 1)
            /\ \A mi \in DOMAIN ma.files : \A k \in 1..Len(ma.files[mi]) :
                /\ DOMAIN ma.files[mi][k].values =
                     0..((IF ma.extend THEN ROIS_PER_MONITOR ELSE ChunkSize(n_rois(ma), mi)) - 1)
                /\ \A c \in DOMAIN ma.files[mi][k].values :
                     ma.files[mi][k].values[c] =
                        IF c < ChunkSize(n_rois(ma), mi)
                        THEN ma.files[mi][k].activity.values[ROIS_PER_MONITOR * mi + c]
                        ELSE ZeroValue(ma.track_type)

\* an area of 33 ROIs with extend set wrote a row whose second chunk holds
\* the distance of ROI 32 in its first column and padding after it, while
\* the first chunk holds the distances of ROIs 0 and 31 at its two ends
C13_Witness ==
    /\ pc = "done"
    /\ n_rois(monitored_areas[1]) = ROIS_PER_MONITOR + 1
    /\ monitored_areas[1].extend
    /\ monitored_areas[1].track_type = distance
    /\ monitored_areas[1].roi_filter = None
    /\ Len(monitored_areas[1].files[1]) >= 1
    /\ monitored_areas[1].files[1][1].values[0] = ROIS_PER_MONITOR + 1
    /\ monitored_areas[1].files[1][1].values[1] = 0
    /\ monitored_areas[1].files[0][1].values[0] = 1
    /\ monitored_areas[1].files[0][1].values[ROIS_PER_MONITOR - 1] = ROIS_PER_MONITOR

(***************************************************************************)
(* C14. The trackable filter.                                              *)
(***************************************************************************)
\* the ROIs the filter of an area names
Filtered(a) ==
    {monitored_areas[a].roi_filter[i] : i \in 1..Len(monitored_areas[a].roi_filter)}

\* ROI r of area a is excluded by a filter that is neither absent nor empty
Excluded(a, r) == monitored_areas[a].roi_filter # <<>> /\ r \notin Filtered(a)

\* C14: in each of the three modes, in every row written, the column of a
\* ROI that the filter excludes is at the ROI's position and shows zero;
\* with an absent or empty filter every ROI is trackable and has had its ROI
\* task in every frame processed.
C14_TrackableFilter ==
    \A a \in Areas :
        LET ma == monitored_areas[a]
        IN  /\ \A r \in Rois(a) :
                Excluded(a, r) =>
                    \A k \in 1..Len(ma.files[r \div ROIS_PER_MONITOR]) :
                        /\ ma.files[r \div ROIS_PER_MONITOR][k].activity.values[r]
                                = ZeroValue(ma.track_type)
                        /\ ma.files[r \div ROIS_PER_MONITOR][k].values[r % ROIS_PER_MONITOR]
                                = ZeroValue(ma.track_type)
            /\ ma.roi_filter = <<>> =>
                \A r \in Rois(a) :
                    /\ is_roi_trackable(ma, r)
                    /\ BetweenFrames => hist.added[a][r] = hist.frames

\* an area of 33 ROIs tracking only ROIs 0 and 32 wrote, in Position mode, a
\* row of non-zero positions for these two and zeros for ROIs 1 and 31
C14_Witness ==
    /\ pc = "done"
    /\ n_rois(monitored_areas[1]) = ROIS_PER_MONITOR + 1
    /\ monitored_areas[1].track_type = position
    /\ Filtered(1) = {0, ROIS_PER_MONITOR}
    /\ Len(monitored_areas[1].files[1]) >= 1
    /\ monitored_areas[1].files[0][1].values[0] # ZeroValue(position)
    /\ monitored_areas[1].files[0][1].values[1] = ZeroValue(position)
    /\ monitored_areas[1].files[0][1].values[ROIS_PER_MONITOR - 1] = ZeroValue(position)
    /\ monitored_areas[1].files[1][1].values[0] # ZeroValue(position)

(***************************************************************************)
(* Noise damping (add_fly_coords).  Runs on an area of two ROIs with a     *)
(* movie whose blobs sit on whole pixels (PointA) and between them         *)
(* (PointC).                                                               *)
(***************************************************************************)
DampingRuns ==
    { [areas |-> <<AreaConfig("two", t, 1, 2, 1, None)>>,
       movie |-> "fine", nframes |-> MaxFrames, mp_pool_size |-> p] :
        t \in TrackingTypes, p \in 1..MaxPool }

InitDamping == InitWith(DampingRuns)

SpecDamping == InitDamping /\ [][Next]_vars

\* the accepted point of ROI r of area a, in the units of a detection
AcceptedPoint(a, r) == as_detected(monitored_areas[a].current_frame_fly_coord[r])

\* the same after the step
AcceptedPointNext(a, r) == as_detected(monitored_areas'[a].current_frame_fly_coord[r])

\* worker w completes its add_fly_coords call in this step
Completes(w) == workers[w] # NoTask /\ workers'[w] = NoTask

\* the detection of task t is damped: none, or at distance zero of the accepted point
Damped(t) == t.coords = None \/ Distance(AcceptedPoint(t.area, t.roi), t.coords) = 0

\* C15: a call of add_fly_coords with no detection, or with a detection at
\* distance exactly zero of the accepted point, leaves the accepted point
\* unchanged and returns distance zero; any other call makes the detected
\* point the accepted point; the accepted point of every other ROI is left
\* alone.
C15_NoiseDamping ==
    [][\A w \in DOMAIN workers :
          Completes(w) =>
              /\ Damped(workers[w]) =>
                    /\ AcceptedPointNext(workers[w].area, workers[w].roi)
                            = AcceptedPoint(workers[w].area, workers[w].roi)
                    /\ hist'.returned[workers[w].area][workers[w].roi].distance = 0
              /\ ~Damped(workers[w]) =>
                    AcceptedPointNext(workers[w].area, workers[w].roi) = workers[w].coords
              /\ \A a \in Areas : \A r \in Rois(a) :
                    <<a, r>> # <<workers[w].area, workers[w].roi>> =>
                        AcceptedPointNext(a, r) = AcceptedPoint(a, r)]_vars

(***************************************************************************)
(* Beam crossings (_calculate_vbm).  Runs in BeamCrossings mode on a ROI   *)
(* with a horizontal beam (tall: PointB before the beam, PointA on it,     *)
(* PointD past it) and on one with a vertical beam (wide: PointA and       *)
(* PointB before it, PointD past it).                                      *)
(***************************************************************************)
CrossingRuns ==
    { [areas |-> <<AreaConfig(m, beam_crossings, i, c, b, None)>>,
       movie |-> "cross", nframes |-> MaxFrames, mp_pool_size |-> 1] :
        m \in {"tall", "wide"}, i \in 1..MaxInterval, c \in 0..MaxCap, b \in 1..MaxBufSize }

InitCrossings == InitWith(CrossingRuns)

SpecCrossings == InitCrossings /\ [][Next]_vars

\* the path of ROI r of area a has ended off the beam
EndedOffBeam(a, r) == BeamSide(monitored_areas[a], r, hist.last[a][r]) # 0

\* C16: when a run in BeamCrossings mode has ended, the values of a ROI in
\* the rows written add up to the number of times its path changed sides of
\* the midline, a point on the midline being on neither side: a path that
\* lands on the midline and goes on counts once, a path that touches it and
\* turns back counts nothing.
C16_BeamCrossings ==
    pc = "done" =>
        \A a \in Areas :
            monitored_areas[a].track_type = beam_crossings =>
                \A r \in Rois(a) :
                    EndedOffBeam(a, r) => RowSum(Rows(a), r) = hist.sign_changes[a][r]

(***************************************************************************)
(* Position of a window (_calculate_position).                             *)
(***************************************************************************)
\* the window of area a is the first of its run: every frame fed is in it
FirstWindow(a) == monitored_areas[a].aggregated_frames_buffer_index = hist.updated[a]

\* the first slot of the window of area a holding a point of the window:
\* slot 0 of a later window repeats the last point of the window before
WindowStart(a) == IF FirstWindow(a) THEN 0 ELSE 1

\* the sum of coordinate c of the points of ROI r in the slots from .. to - 1
RECURSIVE SlotSum(_, _, _, _, _)
SlotSum(ma, r, c, from, to) ==
    IF from >= to THEN 0
    ELSE ma.aggregated_frames_fly_coord[r][to - 1][c] + SlotSum(ma, r, c, from, to - 1)

\* the arithmetic mean of the points of ROI r in the window of area a
WindowMean(a, r) ==
    << Rat(SlotSum(monitored_areas[a], r, 1, WindowStart(a),
                   monitored_areas[a].aggregated_frames_buffer_index),
           monitored_areas[a].aggregated_frames_buffer_index - WindowStart(a)),
       Rat(SlotSum(monitored_areas[a], r, 2, WindowStart(a),
                   monitored_areas[a].aggregated_frames_buffer_index),
           monitored_areas[a].aggregated_frames_buffer_index - WindowStart(a)) >>

\* a fraction rounded down to the whole number
Floor(q) == q[1] \div q[2]

\* C17: in Position mode, the aggregation of a window that holds a step
\* yields, for every ROI, the arithmetic mean of the points of the window
\* (compared here to the whole pixel, as the values are stored); the points
\* of the first window of a run start with the first frame's point.
C17_PositionMean ==
    \A a \in Areas :
        (/\ monitored_areas[a].track_type = position
         /\ monitored_areas[a].aggregated_frames_buffer_index >= 2) =>
            \A r \in Rois(a) : \A c \in 1..2 :
                Floor(calculate_position(monitored_areas[a]).values[r][c])
                    = Floor(WindowMean(a, r)[c])

(***************************************************************************)
(* ROI files.  Area 1 is edited with add_roi and saved; the file may then  *)
(* be cut short, damaged or removed; area 2 loads it.                      *)
(***************************************************************************)
\* the ROIs drawn, with the number of subjects in each
RoisDrawn == {[roi |-> RoiTall, n_flies |-> 1], [roi |-> RoiWide, n_flies |-> 2]}

InitRois ==
    /\ monitored_areas = << MonitoredArea(distance, 1, 1, 1, FALSE),
                            MonitoredArea(distance, 1, 1, 1, FALSE) >>
    /\ image_source = MovieFile("free", 0)
    /\ mp_pool_size = 1
    /\ running_flag = TRUE
    /\ pc = "rois"
    /\ frame = NoFrame
    /\ queue = <<>>
    /\ workers = [w \in 1..1 |-> NoTask]
    /\ area_index = 1
    /\ disk = NoDisk
    /\ tracker = NoTracker
    /\ hist = EmptyHist(<<>>)

\* add_roi(roi, n_flies) on area a
AddRoi(a, roi, n_flies) ==
    /\ pc = "rois"
    /\ Len(monitored_areas[a].ROIS) < MaxRois
    /\ monitored_areas' = [monitored_areas EXCEPT ![a] = add_roi(@, roi, n_flies)]
    /\ UNCHANGED <<image_source, mp_pool_size, running_flag, pc, frame, queue, workers,
                   area_index, disk, tracker, hist>>

\* save_rois(f) on area a
SaveRois(a, f) ==
    /\ pc = "rois"
    /\ disk' = [disk EXCEPT ![f] = save_rois(monitored_areas[a])]
    /\ hist' = [hist EXCEPT !.saved[f] =
                    [rois |-> monitored_areas[a].ROIS,
                     counts |-> monitored_areas[a].points_to_track,
                     intact |-> TRUE]]
    /\ UNCHANGED <<monitored_areas, image_source, mp_pool_size, running_flag, pc, frame,
                   queue, workers, area_index, tracker>>

\* the file f is removed, cut short or gets an opcode no unpickler knows
DamageFile(f) ==
    /\ pc = "rois"
    /\ disk[f].exists
    /\ hist.saved[f].intact
    /\ \/ disk' = [disk EXCEPT ![f] = [exists |-> FALSE, data |-> <<>>]]
       \/ \E k \in 0..(Len(disk[f].data) - 1) :
            disk' = [disk EXCEPT ![f].data = SubSeq(@, 1, k)]
       \/ \E k \in 1..Len(disk[f].data) :
            disk' = [disk EXCEPT ![f].data[k] = <<"?", 0>>]
    /\ hist' = [hist EXCEPT !.saved[f].intact = FALSE]
    /\ UNCHANGED <<monitored_areas, image_source, mp_pool_size, running_flag, pc, frame,
                   queue, workers, area_index, tracker>>

\* load_rois(f) on area a
LoadRois(a, f) ==
    /\ pc = "rois"
    /\ hist.loads < MaxLoads
    /\ monitored_areas' = [monitored_areas EXCEPT ![a] = load_rois_file(@, f, disk).ma]
    /\ hist' = [hist EXCEPT
                    !.loads = @ + 1,
                    !.loaded = <<a, f>>,
                    !.raised = load_rois_file(monitored_areas[a], f, disk).raised]
    /\ UNCHANGED <<image_source, mp_pool_size, running_flag, pc, frame, queue, workers,
                   area_index, disk, tracker>>

NextRois ==
    \/ \E drawn \in RoisDrawn : AddRoi(1, drawn.roi, drawn.n_flies)
    \/ \E f \in FileNames : SaveRois(1, f)
    \/ \E f \in FileNames : DamageFile(f)
    \/ \E f \in FileNames : LoadRois(2, f)

SpecRois == InitRois /\ [][NextRois]_vars

\* area a has just been constructed
Fresh(a) == monitored_areas[a] = MonitoredArea(distance, 1, 1, 1, FALSE)

\* this step is a call of load_rois(f) on area a
Loads(a, f) == hist'.loads = hist.loads + 1 /\ hist'.loaded = <<a, f>>

\* C18: loading a file that save_rois wrote into a fresh MonitoredArea raises
\* nothing and yields the ROI list that was saved, in the same order, and
\* the subject-count list that was saved.
C18_RoiRoundTrip ==
    [][\A a \in Areas : \A f \in FileNames :
          (Loads(a, f) /\ Fresh(a) /\ hist.saved[f].intact) =>
              /\ hist'.raised = ""
              /\ monitored_areas'[a].ROIS = hist.saved[f].rois
              /\ monitored_areas'[a].points_to_track = hist.saved[f].counts]_vars

\* a fresh area has loaded a saved file of two different ROIs with different
\* subject counts
C18_Witness ==
    /\ hist.loads = 1
    /\ hist.raised = ""
    /\ hist.saved["rois.mask"].intact
    /\ hist.saved["rois.mask"].rois = <<RoiWide, RoiTall>>
    /\ hist.saved["rois.mask"].counts = <<2, 1>>
    /\ monitored_areas[2].ROIS = <<RoiWide, RoiTall>>
    /\ monitored_areas[2].points_to_track = <<2, 1>>

\* the file f is missing, or is a saved file that was cut short or damaged
Unreadable(f) == ~disk[f].exists \/ ~hist.saved[f].intact

\* what C19 calls the state load_rois installs
Installed(ma) ==
    <<ma.ROIS, ma.points_to_track, ma.beams, ma.rois_background,
      ma.current_frame_fly_coord, ma.aggregated_frames_fly_coord>>

\* C19: load_rois of a file that is missing, truncated or structurally
\* invalid raises an error, and a call that raises leaves the area's ROI
\* list, subject-count list, beams and per-ROI buffers as they were.
C19_NoPartialState ==
    [][\A a \in Areas : \A f \in FileNames :
          Loads(a, f) =>
              /\ Unreadable(f) => hist'.raised # ""
              /\ hist'.raised # "" =>
                    Installed(monitored_areas'[a]) = Installed(monitored_areas[a])]_vars

(***************************************************************************)
(* Sequential frame access (MovieFile.open, get_image).  The source is     *)
(* opened on a movie of 0..MaxFrames frames with any start and end time,   *)
(* then read with get_image; update_frame_index is the seek.               *)
(***************************************************************************)
\* start and end times in milliseconds: None (-1) and every half second
TimeLimits == {-1} \cup {500 * k : k \in 0..(2 * MaxFrames + 1)}

InitMovie ==
    /\ \E opened \in BOOLEAN, nframes \in 0..MaxFrames, fps \in 1..2 :
        \E start_msecs \in TimeLimits, end_msecs \in TimeLimits :
            /\ opened \/ nframes = 0
            /\ image_source = MovieFile_open("free", opened, nframes, fps, start_msecs, end_msecs)
    /\ monitored_areas = <<>>
    /\ mp_pool_size = 1
    /\ running_flag = TRUE
    /\ pc = "movie"
    /\ frame = NoFrame
    /\ queue = <<>>
    /\ workers = [w \in 1..1 |-> NoTask]
    /\ area_index = 1
    /\ disk = NoDisk
    /\ tracker = NoTracker
    /\ hist = EmptyHist(<<>>)

\* a call of get_image: refused, or the capture reads (ok or not) and the
\* cursor moves on
GetImage ==
    /\ pc = "movie"
    /\ IF get_image_refused(image_source)
       THEN /\ Len(SelectSeq(hist.got, LAMBDA g : g.index = -1)) < MaxPastEnd
            /\ hist' = [hist EXCEPT !.got = Append(@, [has_frame |-> FALSE, index |-> -1])]
            /\ UNCHANGED image_source
       ELSE \E ok \in BOOLEAN :
            /\ image_source' = get_image_read(image_source, ok)
            /\ hist' = [hist EXCEPT !.got =
                            Append(@, [has_frame |-> ok, index |-> image_source.current_frame])]
    /\ UNCHANGED <<monitored_areas, mp_pool_size, running_flag, pc, frame, queue, workers,
                   area_index, disk, tracker>>

\* a call of update_frame_index(frame_index)
Seek(frame_index) ==
    /\ pc = "movie"
    /\ image_source.opened
    /\ ~hist.sought
    /\ \E ok \in BOOLEAN : image_source' = update_frame_index(image_source, frame_index, ok)
    /\ hist' = [hist EXCEPT !.sought = TRUE, !.seek_index = frame_index]
    /\ UNCHANGED <<monitored_areas, mp_pool_size, running_flag, pc, frame, queue, workers,
                   area_index, disk, tracker>>

NextMovie ==
    \/ GetImage
    \/ \E frame_index \in (-1)..(MaxFrames + 1) : Seek(frame_index)

SpecMovie == InitMovie /\ [][NextMovie]_vars

\* the results of the get_image calls that were not refused
FramesGot == SelectSeq(hist.got, LAMBDA g : g.index # -1)

\* the number of frames from the start bound to the end bound
FramesInBounds ==
    IF image_source.opened /\ image_source.end > image_source.start
    THEN image_source.end - image_source.start ELSE 0

\* C20: after open() and with no seek, the k-th get_image call returns the
\* frame index start + k - 1 as long as that is below the end bound; every
\* call made with the cursor at or past the end bound returns has_frame
\* false and leaves the cursor where it is, so no index is returned twice
\* and none after a refusal.
C20_SequentialFrames ==
    ~hist.sought =>
        /\ \A k \in 1..Len(hist.got) :
              IF k <= FramesInBounds
              THEN hist.got[k].index = image_source.start + k - 1
              ELSE hist.got[k].index = -1 /\ ~hist.got[k].has_frame
        /\ image_source.current_frame = image_source.start + Len(FramesGot)

\* every frame of a clip with a start and an end time has been returned and
\* two more calls were refused
C20_Witness ==
    /\ ~hist.sought
    /\ image_source.start = 1
    /\ image_source.end = 3
    /\ image_source.total_frames = 4
    /\ Len(hist.got) = 4
    /\ hist.got[1] = [has_frame |-> TRUE, index |-> 1]
    /\ hist.got[2] = [has_frame |-> TRUE, index |-> 2]
    /\ hist.got[4] = [has_frame |-> FALSE, index |-> -1]

(***************************************************************************)
(* Seek (MovieFile.update_frame_index).                                    *)
(***************************************************************************)
\* this step is a call of update_frame_index
Seeks == hist'.sought /\ ~hist.sought

\* C21 as claimed: after update_frame_index(i), for every i, the cursor
\* satisfies start <= cursor < end.
C21_SeekInsideBounds ==
    [][Seeks => /\ image_source.start <= image_source'.current_frame
                /\ image_source'.current_frame < image_source.end]_vars

\* C21 amended: after update_frame_index(i) the cursor is i for
\* start <= i < end, start for i < start and end for i >= end, so that
\* start <= cursor <= end whenever start <= end.
C21_SeekClamped ==
    [][Seeks =>
        /\ image_source'.current_frame =
              IF image_source.start <= hist'.seek_index /\ hist'.seek_index < image_source.end
              THEN hist'.seek_index
              ELSE IF hist'.seek_index < image_source.start THEN image_source.start
              ELSE image_source.end
        /\ image_source.start <= image_source.end =>
              /\ image_source.start <= image_source'.current_frame
              /\ image_source'.current_frame <= image_source.end
        /\ image_source'.start = image_source.start
        /\ image_source'.end = image_source.end]_vars

\* a seek past the end bound of a clip of two frames has put the cursor on
\* the end bound
C21_Witness ==
    /\ hist.sought
    /\ hist.got = <<>>
    /\ image_source.start = 1
    /\ image_source.end = 3
    /\ hist.seek_index = 4
    /\ image_source.current_frame = 3

(***************************************************************************)
(* The life of a MovieFile: construction with or without opening, open,    *)
(* close, the setters of the start and end times.  The decoders that       *)
(* cv2.VideoCapture acquired are kept in hist.decoders, "open" or          *)
(* "released" ("failed" where the file could not be opened), in the order  *)
(* they were acquired; a decoder is referenced as long as it is the        *)
(* source's _capture.                                                      *)
(***************************************************************************)
\* _capture is None
NoCapture == 0

\* the attribute _capture does not exist: __init__ does not assign it
Unset == -1

\* None for a frame number that open() has not computed yet
NoFrames == -1

\* MovieFile.__init__ without the call of open()
MovieFile_init(movie, start_msecs, end_msecs) ==
    [movie |-> movie, opened |-> FALSE, start |-> NoFrames, end |-> NoFrames, step |-> 1,
     total_frames |-> NoFrames, current_frame |-> NoFrames, pos_frames |-> 0,
     capture |-> Unset, fps |-> 0, start_msecs |-> start_msecs, end_msecs |-> end_msecs,
     size |-> None, resolution |-> None]

\* mutant: the width scale is used for both axes
get_scale_of_width(src) ==
    IF src.size # None /\ src.resolution # None /\ src.resolution[1] # 0 /\ src.resolution[2] # 0
    THEN <<Rat(src.size[1], src.resolution[1]), Rat(src.size[1], src.resolution[1])>>
    ELSE None

\* ImageSource.get_scale
get_scale(src) ==
    IF src.size # None /\ src.resolution # None /\ src.resolution[1] # 0 /\ src.resolution[2] # 0
    THEN <<Rat(src.size[1], src.resolution[1]), Rat(src.size[2], src.resolution[2])>>
    ELSE None

\* ImageSource.set_resolution
set_resolution(src, width, height) == [src EXCEPT !.resolution = <<width, height>>]

\* MovieFile.open: capture is the decoder that cv2.VideoCapture acquired
MovieFile_reopen(src, capture, opened, nframes, fps, size) ==
    [src EXCEPT !.capture = capture,
                !.size = size,
                !.opened = opened,
                !.fps = fps,
                !.start = MovieFile_open(src.movie, opened, nframes, fps, src.start_msecs, src.end_msecs).start,
                !.end = MovieFile_open(src.movie, opened, nframes, fps, src.start_msecs, src.end_msecs).end,
                !.total_frames = nframes,
                !.current_frame = MovieFile_open(src.movie, opened, nframes, fps, src.start_msecs, src.end_msecs).start,
                !.pos_frames = MovieFile_open(src.movie, opened, nframes, fps, src.start_msecs, src.end_msecs).start]

\* MovieFile.is_opened, where _capture exists
is_opened(src) == src.capture # NoCapture /\ src.opened

\* mutant: a start time before the beginning is taken as it is
set_start_time_in_seconds_unclamped(src, start_time) ==
    IF is_opened(src)
    THEN [src EXCEPT !.start_msecs = start_time * 1000,
                     !.start = IF start_time * src.fps > src.total_frames THEN src.total_frames
                               ELSE start_time * src.fps]
    ELSE [src EXCEPT !.start_msecs = start_time * 1000]

\* MovieFile.set_start_time_in_seconds
set_start_time_in_seconds(src, start_time) ==
    IF is_opened(src)
    THEN [src EXCEPT !.start_msecs = start_time * 1000,
                     !.start = IF start_time * src.fps < 0 THEN 0
                               ELSE IF start_time * src.fps > src.total_frames THEN src.total_frames
                               ELSE start_time * src.fps]
    ELSE [src EXCEPT !.start_msecs = start_time * 1000]

\* MovieFile.set_end_time_in_seconds
set_end_time_in_seconds(src, end_time) ==
    IF is_opened(src)
    THEN [src EXCEPT !.end_msecs = end_time * 1000,
                     !.end = IF end_time * src.fps < 0 THEN src.total_frames
                             ELSE IF end_time * src.fps > src.total_frames THEN src.total_frames
                             ELSE end_time * src.fps]
    ELSE [src EXCEPT !.end_msecs = end_time * 1000]

\* MovieFile.close, where _capture exists
close(src) == [src EXCEPT !.capture = NoCapture, !.opened = IF src.capture = NoCapture THEN @ ELSE FALSE]

\* start and end times given at construction: None (-1), the beginning, a
\* time inside a clip, a time beyond every clip
TimesGiven == {-1, 0, 1500, 1000 * (MaxFrames + 1)}

\* the frame sizes (width, height) of the movie files
NativeSizes == {<<4, 2>>, <<2, 4>>}

InitSource ==
    /\ \E start_msecs \in TimesGiven, end_msecs \in TimesGiven :
            image_source = MovieFile_init("free", start_msecs, end_msecs)
    /\ monitored_areas = <<>>
    /\ mp_pool_size = 1
    /\ running_flag = TRUE
    /\ pc = "source"
    /\ frame = NoFrame
    /\ queue = <<>>
    /\ workers = [w \in 1..1 |-> NoTask]
    /\ area_index = 1
    /\ disk = NoDisk
    /\ tracker = NoTracker
    /\ hist = EmptyHist(<<>>)

\* open(), from __init__ or later: a decoder is acquired for a file of
\* nframes frames (none if it cannot be opened) and becomes _capture; the
\* decoder that was _capture is no longer referenced
Open ==
    /\ pc = "source"
    /\ Len(hist.decoders) < MaxOpens
    /\ \E opened \in BOOLEAN, nframes \in 0..MaxFrames, fps \in 1..2, size \in NativeSizes :
        /\ opened \/ nframes = 0
        /\ image_source' = MovieFile_reopen(image_source, Len(hist.decoders) + 1,
                                             opened, nframes, fps,
                                             IF opened THEN size ELSE <<0, 0>>)
        /\ hist' = [hist EXCEPT
                        !.decoders = Append(@, IF opened THEN "open" ELSE "failed"),
                        !.raised = ""]
    /\ UNCHANGED <<monitored_areas, mp_pool_size, running_flag, pc, frame, queue, workers,
                   area_index, disk, tracker>>

\* close(): AttributeError when _capture was never assigned
Close ==
    /\ pc = "source"
    /\ IF image_source.capture = Unset
       THEN /\ hist' = [hist EXCEPT !.raised = "AttributeError"]
            /\ UNCHANGED image_source
       ELSE /\ image_source' = close(image_source)
            /\ hist' = [hist EXCEPT
                    !.raised = "",
                    !.decoders = IF image_source.capture = NoCapture THEN @
                                 ELSE [@ EXCEPT ![image_source.capture] =
                                            IF @ = "open" THEN "released" ELSE @]]
    /\ UNCHANGED <<monitored_areas, mp_pool_size, running_flag, pc, frame, queue, workers,
                   area_index, disk, tracker>>

\* the interpreter finalizes a decoder that is open and no longer referenced
Collect ==
    /\ pc = "source"
    /\ \E d \in 1..Len(hist.decoders) :
        /\ d # image_source.capture
        /\ hist.decoders[d] = "open"
        /\ hist' = [hist EXCEPT !.decoders[d] = "released"]
    /\ UNCHANGED <<monitored_areas, image_source, mp_pool_size, running_flag, pc, frame,
                   queue, workers, area_index, disk, tracker>>

\* set_start_time_in_seconds(start_time); is_opened() raises when _capture
\* was never assigned, after _start_msecs has been set
SetStartTime(start_time) ==
    /\ pc = "source"
    /\ image_source' = set_start_time_in_seconds(image_source, start_time)
    /\ hist' = [hist EXCEPT !.raised =
                    IF image_source.capture = Unset THEN "AttributeError" ELSE ""]
    /\ UNCHANGED <<monitored_areas, mp_pool_size, running_flag, pc, frame, queue, workers,
                   area_index, disk, tracker>>

\* set_end_time_in_seconds(end_time)
SetEndTime(end_time) ==
    /\ pc = "source"
    /\ image_source' = set_end_time_in_seconds(image_source, end_time)
    /\ hist' = [hist EXCEPT !.raised =
                    IF image_source.capture = Unset THEN "AttributeError" ELSE ""]
    /\ UNCHANGED <<monitored_areas, mp_pool_size, running_flag, pc, frame, queue, workers,
                   area_index, disk, tracker>>

\* times in whole seconds: before the beginning, inside and beyond a clip
TimesSet == {-1, 0, 1, MaxFrames + 1}

NextSource ==
    \/ Open
    \/ Close
    \/ Collect
    \/ \E start_time \in TimesSet : SetStartTime(start_time)
    \/ \E end_time \in TimesSet : SetEndTime(end_time)

SpecSource == InitSource /\ [][NextSource]_vars

\* C22: once the source has been opened, whatever start and end times were
\* given at construction and whatever times are given to the setters later,
\* 0 <= start <= total_frames and 0 <= end <= total_frames.
C22_BoundsClamped ==
    image_source.total_frames # NoFrames =>
        /\ 0 <= image_source.start /\ image_source.start <= image_source.total_frames
        /\ 0 <= image_source.end /\ image_source.end <= image_source.total_frames

\* a clip of MaxFrames frames was opened with its bounds beyond the clip and
\* then given a start before the beginning and an end beyond the clip
C22_Witness ==
    /\ image_source.total_frames = MaxFrames
    /\ is_opened(image_source)
    /\ image_source.start_msecs = -1000
    /\ image_source.end_msecs = 1000 * (MaxFrames + 1)
    /\ image_source.start = 0
    /\ image_source.end = MaxFrames

Resolutions == {None} \cup {<<w, h>> : w \in 0..3, h \in 0..3}

InitScale ==
    /\ \E resolution \in Resolutions :
            image_source = [MovieFile_init("free", -1, -1) EXCEPT !.resolution = resolution]
    /\ monitored_areas = <<>>
    /\ mp_pool_size = 1
    /\ running_flag = TRUE
    /\ pc = "source"
    /\ frame = NoFrame
    /\ queue = <<>>
    /\ workers = [w \in 1..1 |-> NoTask]
    /\ area_index = 1
    /\ disk = NoDisk
    /\ tracker = NoTracker
    /\ hist = EmptyHist(<<>>)

\* set_resolution(width, height)
SetResolution(width, height) ==
    /\ pc = "source"
    /\ image_source' = set_resolution(image_source, width, height)
    /\ UNCHANGED <<monitored_areas, mp_pool_size, running_flag, pc, frame, queue, workers,
                   area_index, disk, tracker, hist>>

NextScale ==
    \/ Open
    \/ \E width \in 0..3, height \in 0..3 : SetResolution(width, height)

SpecScale == InitScale /\ [][NextScale]_vars

\* the source has a native size and a target resolution, none of them zero
NonZeroSizes ==
    /\ image_source.size # None
    /\ image_source.resolution # None
    /\ image_source.size[1] # 0 /\ image_source.size[2] # 0
    /\ image_source.resolution[1] # 0 /\ image_source.resolution[2] # 0

\* C24 as claimed: for non-zero sizes get_scale() is (sx, sy) with sx the
\* target width divided by the native width and sy the target height
\* divided by the native height.
C24_ScaleTargetOverNative ==
    NonZeroSizes =>
        get_scale(image_source) =
            << Rat(image_source.resolution[1], image_source.size[1]),
               Rat(image_source.resolution[2], image_source.size[2]) >>

\* C24 amended: for non-zero sizes get_scale() is (sx, sy) with sx the native
\* width divided by the target width and sy the native height divided by
\* the target height.
C24_ScaleNativeOverTarget ==
    NonZeroSizes =>
        get_scale(image_source) =
            << Rat(image_source.size[1], image_source.resolution[1]),
               Rat(image_source.size[2], image_source.resolution[2]) >>

\* a movie of 4 x 2 pixels with a target resolution of 3 x 1
C24_Witness ==
    /\ image_source.size = <<4, 2>>
    /\ image_source.resolution = <<3, 1>>
    /\ get_scale(image_source) = <<Rat(4, 3), Rat(2, 1)>>

(***************************************************************************)
(* The tracker program (pysolo_tracker.py): main and the runs it starts.   *)
(* Text is a sequence of characters, so that two file names are equal      *)
(* exactly when they are spelled alike.                                    *)
(***************************************************************************)
\* the longest movie, in seconds, and the largest --nprocesses
MaxSeconds == 5
MaxProcesses == 3

DigitChars == <<"0", "1", "2", "3", "4", "5", "6", "7", "8", "9">>

\* '{}'.format(n) for an int n
RECURSIVE format_int(_)
format_int(n) ==
    IF n < 0 THEN <<"-">> \o format_int(-n)
    ELSE IF n < 10 THEN <<DigitChars[n + 1]>>
    ELSE format_int(n \div 10) \o <<DigitChars[(n % 10) + 1]>>

\* int(q) for a fraction q: towards zero
int(q) == IF q[1] >= 0 THEN q[1] \div q[2] ELSE -((-q[1]) \div q[2])

\* list(range(start, stop, step)) for a step that is not zero
range(start, stop, step) ==
    LET n == IF step > 0 /\ stop > start THEN CeilDiv(stop - start, step)
             ELSE IF step < 0 /\ start > stop THEN CeilDiv(start - stop, -step)
             ELSE 0
    IN  [k \in 1..n |-> start + (k - 1) * step]

\* MovieFile.get_start_time_in_seconds and get_end_time_in_seconds of an
\* opened source
get_start_time_in_seconds(src) == Rat(src.start, src.fps)
get_end_time_in_seconds(src) == Rat(src.end, src.fps)

\* _get_run_interval(start_pos, end_pos) for ints: whether a subinterval is
\* defined, and the text of the interval
_get_run_interval(start_pos, end_pos) ==
    LET start == IF start_pos <= 0 THEN <<FALSE, <<"0">> >> ELSE <<TRUE, format_int(start_pos)>>
        end == IF end_pos < 0 THEN <<FALSE, <<"e", "n", "d">> >> ELSE <<TRUE, format_int(end_pos)>>
    IN  <<start[1] \/ end[1], start[2] \o <<"-">> \o end[2]>>

\* main: frame_interval
frame_interval(src, nprocesses) ==
    LET start_frame_pos == int(get_start_time_in_seconds(src))
        end_frame_pos == int(get_end_time_in_seconds(src))
    IN  int(Rat(end_frame_pos - start_frame_pos, nprocesses))

\* main: tracker_args, for a frame_interval that is not zero
tracker_args(src, nprocesses) ==
    LET start_frame_pos == int(get_start_time_in_seconds(src))
        end_frame_pos == int(get_end_time_in_seconds(src))
        starts == range(start_frame_pos, end_frame_pos, frame_interval(src, nprocesses))
    IN  [k \in 1..Len(starts) |->
            [start_pos_msecs |-> starts[k] * 1000,
             end_pos_msecs |-> (starts[k] + frame_interval(src, nprocesses)) * 1000,
             results_suffix |->
                 _get_run_interval(starts[k], starts[k] + frame_interval(src, nprocesses))[2]]]

\* '{:02}'.format(n)
format_02(n) == IF 0 <= n /\ n < 10 THEN <<"0">> \o format_int(n) ELSE format_int(n)

\* '{}'.format(x) for a float x = n, a whole number
format_float(n) == format_int(n) \o <<".", "0">>

\* _get_run_interval(start_pos, end_pos) for floats that are whole numbers
_get_run_interval_of_floats(start_pos, end_pos) ==
    LET start == IF start_pos <= 0 THEN <<FALSE, <<"0">> >> ELSE <<TRUE, format_float(start_pos)>>
        end == IF end_pos < 0 THEN <<FALSE, <<"e", "n", "d">> >> ELSE <<TRUE, format_float(end_pos)>>
    IN  <<start[1] \/ end[1], start[2] \o <<"-">> \o end[2]>>

\* _run_tracker: output_suffix
output_suffix(start_pos_msecs, end_pos_msecs, results_suffix) ==
    LET subinterval_defined ==
            _get_run_interval_of_floats(start_pos_msecs \div 1000, end_pos_msecs \div 1000)[1]
        run_interval ==
            _get_run_interval_of_floats(start_pos_msecs \div 1000, end_pos_msecs \div 1000)[2]
    IN  IF subinterval_defined /\ results_suffix = <<>> THEN run_interval ELSE results_suffix

\* MonitoredArea.get_track_type_desc
get_track_type_desc(track_type) ==
    IF track_type = distance THEN <<"d", "i", "s", "t", "a", "n", "c", "e">>
    ELSE IF track_type = beam_crossings THEN <<"c", "r", "o", "s", "s", "i", "n", "g", "s">>
    ELSE <<"p", "o", "s", "i", "t", "i", "o", "n">>

\* the replacement field '{:02}' of a pattern is kept as one element
Holder == "{:02}"

\* mutant: the monitor index is left out of the pattern
output_pattern_without_monitor(configured_area_index, n_monitors, track_type, results_suffix) ==
    <<"M", "o", "n", "i", "t", "o", "r", "-">> \o format_02(configured_area_index + 1)
        \o <<"-">> \o get_track_type_desc(track_type)
        \o (IF results_suffix # <<>> THEN <<"-">> \o results_suffix ELSE <<>>)
        \o <<".", "t", "x", "t">>

\* create_monitored_area: output_pattern, for the area at configured_area_index
\* (from 0) of the configuration
output_pattern(configured_area_index, n_monitors, track_type, results_suffix) ==
    <<"M", "o", "n", "i", "t", "o", "r", "-">> \o format_02(configured_area_index + 1)
        \o (IF n_monitors > 1 THEN <<"_", Holder>> ELSE <<>>)
        \o <<"-">> \o get_track_type_desc(track_type)
        \o (IF results_suffix # <<>> THEN <<"-">> \o results_suffix ELSE <<>>)
        \o <<".", "t", "x", "t">>

\* output_filename.format(n): the file name of monitor n
pattern_format(pattern, n) ==
    Concat([i \in 1..Len(pattern) |->
                IF pattern[i] = Holder THEN format_02(n) ELSE <<pattern[i]>>])

\* prepare_monitored_areas: the writers it sets up, one per monitor of every
\* configured area that has its track flag set, each with its file name
output_filenames(config, results_suffix) ==
    Concat([i \in 1..Len(config.areas) |->
        IF config.areas[i].track_flag
        THEN LET ma == create_monitored_area(config.areas[i].area)
             IN  [mi \in 1..get_n_monitors(ma) |->
                    [area |-> i - 1, monitor |-> mi - 1, suffix |-> results_suffix,
                     file |-> pattern_format(
                                  output_pattern(i - 1, get_n_monitors(ma), ma.track_type,
                                                 results_suffix),
                                  mi)]]
        ELSE <<>>])

\* _run_tracker, as far as the output files go
_run_tracker(config, start_pos_msecs, end_pos_msecs, results_suffix) ==
    output_filenames(config, output_suffix(start_pos_msecs, end_pos_msecs, results_suffix))

\* --start-frame-time and --end-frame-time: not given (-1), or a second
FramePositions == (-1)..MaxSeconds

\* a configured area: the track flag and what the MonitoredArea is made from
ConfiguredArea(track_flag, maskfile, track_type) ==
    [track_flag |-> track_flag, area |-> AreaConfig(maskfile, track_type, 1, 1, 1, None)]

\* the tracker program at the start of main
Tracker(config, start_frame_pos, end_frame_pos, nprocesses) ==
    [pc |-> "main", config |-> config, start_frame_pos |-> start_frame_pos,
     end_frame_pos |-> end_frame_pos, nprocesses |-> nprocesses,
     tracker_args |-> <<>>, started |-> 0, outputs |-> <<>>]

InitSegments ==
    /\ \E start_frame_pos \in FramePositions, end_frame_pos \in FramePositions,
          nprocesses \in 2..MaxProcesses :
            tracker = Tracker([areas |-> <<ConfiguredArea(TRUE, "tall", distance)>>],
                              start_frame_pos, end_frame_pos, nprocesses)
    /\ image_source = MovieFile_init("free", -1, -1)
    /\ monitored_areas = <<>>
    /\ mp_pool_size = 1
    /\ running_flag = TRUE
    /\ pc = "tracker"
    /\ frame = NoFrame
    /\ queue = <<>>
    /\ workers = [w \in 1..1 |-> NoTask]
    /\ area_index = 1
    /\ disk = NoDisk
    /\ hist = EmptyHist(<<>>)

\* main with nprocesses > 1, up to the call of starmap: the source is
\* opened on a movie of nframes frames at fps frames per second
Segment ==
    /\ tracker.pc = "main"
    /\ tracker.nprocesses > 1
    /\ \E opened \in BOOLEAN, nframes \in 0..MaxSeconds, fps \in 1..2 :
        /\ opened \/ nframes = 0
        /\ image_source' = MovieFile_reopen(MovieFile_init("free", tracker.start_frame_pos * 1000,
                                                            tracker.end_frame_pos * 1000),
                                             1, opened, nframes, fps,
                                             IF opened THEN <<4, 2>> ELSE <<0, 0>>)
        /\ tracker' =
              IF ~opened THEN [tracker EXCEPT !.pc = "return"]
              ELSE IF frame_interval(image_source', tracker.nprocesses) = 0
                   THEN [tracker EXCEPT !.pc = "ValueError"]
                   ELSE [tracker EXCEPT !.pc = "starmap",
                                        !.tracker_args = tracker_args(image_source',
                                                                      tracker.nprocesses)]
    /\ UNCHANGED <<monitored_areas, mp_pool_size, running_flag, pc, frame, queue, workers,
                   area_index, disk, hist>>

NextSegments == Segment

SpecSegments == InitSegments /\ [][NextSegments]_vars

\* main got as far as computing the windows of a source whose end is not
\* before its start
Segmented ==
    /\ tracker.pc \in {"starmap", "ValueError"}
    /\ int(get_start_time_in_seconds(image_source)) <= int(get_end_time_in_seconds(image_source))

\* C25: for a process count N > 1 and every start and end position in whole
\* seconds, main computes exactly N time windows, each starting where the
\* one before it ends and none overlapping another.
C25_ExactlyNWindows ==
    Segmented =>
        /\ tracker.pc = "starmap"
        /\ Len(tracker.tracker_args) = tracker.nprocesses
        /\ \A k \in 1..Len(tracker.tracker_args) :
              tracker.tracker_args[k].start_pos_msecs < tracker.tracker_args[k].end_pos_msecs
        /\ \A k \in 2..Len(tracker.tracker_args) :
              tracker.tracker_args[k].start_pos_msecs = tracker.tracker_args[k - 1].end_pos_msecs

(***************************************************************************)
(* Output files.  A run of the tracker, single or in segments, over        *)
(* configurations of one or two areas, tracked or not, of one or two       *)
(* monitors.                                                               *)
(***************************************************************************)
ConfiguredAreas ==
    {ConfiguredArea(f, m, t) : f \in BOOLEAN, m \in {"tall", "many"}, t \in {distance, position}}

Configs ==
    {[areas |-> <<a>>] : a \in ConfiguredAreas}
        \cup {[areas |-> <<a, b>>] : a \in ConfiguredAreas, b \in ConfiguredAreas}

InitOutputs ==
    /\ \E config \in Configs, start_frame_pos \in {-1, 1}, end_frame_pos \in {-1, MaxSeconds},
          nprocesses \in 1..MaxProcesses :
            tracker = Tracker(config, start_frame_pos, end_frame_pos, nprocesses)
    /\ image_source = MovieFile_init("free", -1, -1)
    /\ monitored_areas = <<>>
    /\ mp_pool_size = 1
    /\ running_flag = TRUE
    /\ pc = "tracker"
    /\ frame = NoFrame
    /\ queue = <<>>
    /\ workers = [w \in 1..1 |-> NoTask]
    /\ area_index = 1
    /\ disk = NoDisk
    /\ hist = EmptyHist(<<>>)

\* starmap starts _run_tracker on the next of the tracker_args; the movie
\* that main opened opens again
RunSegment ==
    /\ tracker.pc = "starmap"
    /\ tracker.started < Len(tracker.tracker_args)
    /\ tracker' =
          [tracker EXCEPT
              !.started = @ + 1,
              !.outputs = @ \o _run_tracker(tracker.config,
                                tracker.tracker_args[tracker.started + 1].start_pos_msecs,
                                tracker.tracker_args[tracker.started + 1].end_pos_msecs,
                                tracker.tracker_args[tracker.started + 1].results_suffix)]
    /\ UNCHANGED <<monitored_areas, image_source, mp_pool_size, running_flag, pc, frame, queue,
                   workers, area_index, disk, hist>>

\* main with nprocesses <= 1: one call of _run_tracker, on a movie that
\* opens or does not
RunSingle ==
    /\ tracker.pc = "main"
    /\ tracker.nprocesses <= 1
    /\ \E opened \in BOOLEAN, nframes \in 0..MaxSeconds, fps \in 1..2 :
        /\ opened \/ nframes = 0
        /\ image_source' = MovieFile_reopen(MovieFile_init("free", tracker.start_frame_pos * 1000,
                                                            tracker.end_frame_pos * 1000),
                                             1, opened, nframes, fps,
                                             IF opened THEN <<4, 2>> ELSE <<0, 0>>)
        /\ tracker' =
              IF ~opened THEN [tracker EXCEPT !.pc = "return"]
              ELSE [tracker EXCEPT
                      !.pc = "done",
                      !.started = 1,
                      !.outputs = _run_tracker(tracker.config, tracker.start_frame_pos * 1000,
                                               tracker.end_frame_pos * 1000, <<>>)]
    /\ UNCHANGED <<monitored_areas, mp_pool_size, running_flag, pc, frame, queue, workers,
                   area_index, disk, hist>>

NextOutputs == Segment \/ RunSegment \/ RunSingle

SpecOutputs == InitOutputs /\ [][NextOutputs]_vars

\* C26: the writers set up by the runs of the tracker (one per segment,
\* configured area with tracking on, and monitor chunk of the area) all have
\* different output file names.
C26_SingleWriter ==
    \A i \in 1..Len(tracker.outputs) : \A j \in 1..Len(tracker.outputs) :
        i # j => tracker.outputs[i].file # tracker.outputs[j].file

\* two segments were run on a configuration whose first area is not tracked
\* and whose second area has two monitors
C26_Witness ==
    /\ tracker.started >= 2
    /\ Len(tracker.config.areas) = 2
    /\ ~tracker.config.areas[1].track_flag
    /\ Len(tracker.outputs) >= 4
    /\ tracker.outputs[1].file =
          <<"M", "o", "n", "i", "t", "o", "r", "-", "0", "2", "_", "0", "1", "-",
            "d", "i", "s", "t", "a", "n", "c", "e", "-", "0", "-", "1", ".", "t", "x", "t">>
    /\ tracker.outputs[2].monitor = 1
    /\ tracker.outputs[3].suffix = <<"1", "-", "2">>

(***************************************************************************)
(* Configuration (pysolo_config.py).  An error is the record of its        *)
(* message: the region it is about (0 for the configuration itself), the   *)
(* text of the message and the value formatted into it.                    *)
(***************************************************************************)
\* the largest number of monitored areas of a configuration
MaxAreas == 2

Error(msg, arg) == [region |-> 0, msg |-> msg, arg |-> arg]

\* os.path.exists for a file of the disk
path_exists(files, filename) == filename \in DOMAIN files /\ files[filename].exists

\* MonitoredAreaOptions.validate
MonitoredAreaOptions_validate(a, files) ==
    (IF a.maskfile = "" THEN <<Error("Mask file has not been set", <<>>)>>
     ELSE IF ~path_exists(files, a.maskfile)
          THEN <<Error("Mask file %s does not exist", <<a.maskfile>>)>>
          ELSE <<>>)
    \o (IF a.track_type \notin {0, 1, 2}
        THEN <<Error("Track type: %d is not a valid value", format_int(a.track_type))>>
        ELSE <<>>)
    \o (IF a.aggregation_interval <= 0
        THEN <<Error("Aggregation interval: %d must be a positive number",
                     format_int(a.aggregation_interval))>>
        ELSE <<>>)
    \o (IF a.aggregation_interval_units \notin {"frames", "sec", "min"}
        THEN <<Error("Invalid aggregation interval unit: %s", <<a.aggregation_interval_units>>)>>
        ELSE <<>>)

\* seq[:n], the slice of Python
slice_to(seq, n) ==
    IF n >= 0 THEN SubSeq(seq, 1, Min(n, Len(seq)))
    ELSE SubSeq(seq, 1, Len(seq) + n)

\* ConfigOptions.get_monitored_areas
get_monitored_areas(config) == slice_to(config.monitored_areas, config.monitored_areas_count)

\* ConfigOptions.validate_source, of a configuration whose data folder,
\* acquisition time and image size are set
validate_source(config, files) ==
    IF config.source = "" THEN <<Error("Video source file is not defined", <<>>)>>
    ELSE <<>>

\* ConfigOptions.validate
validate(config, files) ==
    validate_source(config, files)
    \o (IF config.monitored_areas_count = 0
        THEN <<Error("Number of monitored areas must be greater than 0", <<>>)>>
        ELSE IF Len(config.monitored_areas) < config.monitored_areas_count
             THEN <<Error("Number of monitored areas cannot be greater than the number of configured areas", <<>>)>>
             ELSE <<>>)
    \o Concat([ai \in 1..Len(get_monitored_areas(config)) |->
            [e \in 1..Len(MonitoredAreaOptions_validate(get_monitored_areas(config)[ai], files)) |->
                [MonitoredAreaOptions_validate(get_monitored_areas(config)[ai], files)[e]
                    EXCEPT !.region = ai]]])

\* set(errors)
set(seq) == {seq[i] : i \in 1..Len(seq)}

\* the areas a configuration file can describe: the mask file not set,
\* set to a file that is not there or to one that is, a track type that is
\* or is not one of the three, an interval that is or is not positive, a
\* unit that is or is not known
AreaOptions ==
    [maskfile : {"", "gone.mask", "rois.mask"}, track_type : {distance, 3},
     aggregation_interval : {0, 1}, aggregation_interval_units : {"frames", "hours"}]

\* load_config: as many areas as the file says there are, none if it says a
\* negative number
InitConfig ==
    /\ \E n \in (-1)..MaxAreas, src \in {"", "movie.avi"} :
         \E areas \in [1..(IF n > 0 THEN n ELSE 0) -> AreaOptions] :
            tracker = [pc |-> "load",
                       config |-> [source |-> src, monitored_areas_count |-> n,
                                   monitored_areas |-> areas],
                       errors |-> {}, frames |-> 0]
    /\ disk = [f \in FileNames |-> [exists |-> TRUE, data |-> <<>>]]
    /\ image_source = MovieFile_init("free", -1, -1)
    /\ monitored_areas = <<>>
    /\ mp_pool_size = 1
    /\ running_flag = TRUE
    /\ pc = "tracker"
    /\ frame = NoFrame
    /\ queue = <<>>
    /\ workers = [w \in 1..1 |-> NoTask]
    /\ area_index = 1
    /\ hist = EmptyHist(<<>>)

\* main: the configuration, loaded without an error, is validated
Validate ==
    /\ tracker.pc = "load"
    /\ tracker' = [tracker EXCEPT
                      !.errors = set(validate(tracker.config, disk)),
                      !.pc = IF set(validate(tracker.config, disk)) = {} THEN "main" ELSE "error"]
    /\ UNCHANGED <<monitored_areas, image_source, mp_pool_size, running_flag, pc, frame, queue,
                   workers, area_index, disk, hist>>

\* main, len(errors) == 0: the tracker runs and processes a frame
Track ==
    /\ tracker.pc \in {"main", "tracking"}
    /\ tracker.frames < MaxFrames
    /\ tracker' = [tracker EXCEPT !.pc = "tracking", !.frames = @ + 1]
    /\ UNCHANGED <<monitored_areas, image_source, mp_pool_size, running_flag, pc, frame, queue,
                   workers, area_index, disk, hist>>

NextConfig == Validate \/ Track

SpecConfig == InitConfig /\ [][NextConfig]_vars

\* the configuration was validated and the list has an error of this text
Reported(region, msg) ==
    \E e \in tracker.errors : e.region = region /\ e.msg = msg

\* C27: once validate has run, the list has an error for an area count <= 0
\* and, for every area, one for each of: mask file not set or not there,
\* track type not a valid code, aggregation interval not positive, interval
\* unit not valid; and no frame is processed when the list is not empty.
C27_EveryErrorCollected ==
    tracker.pc # "load" =>
        /\ tracker.config.monitored_areas_count <= 0 =>
              Reported(0, "Number of monitored areas must be greater than 0")
        /\ \A ai \in 1..Len(tracker.config.monitored_areas) :
              LET a == tracker.config.monitored_areas[ai]
              IN  /\ a.maskfile = "" => Reported(ai, "Mask file has not been set")
                  /\ a.maskfile # "" /\ ~path_exists(disk, a.maskfile) =>
                        Reported(ai, "Mask file %s does not exist")
                  /\ a.track_type \notin {0, 1, 2} =>
                        Reported(ai, "Track type: %d is not a valid value")
                  /\ a.aggregation_interval <= 0 =>
                        Reported(ai, "Aggregation interval: %d must be a positive number")
                  /\ a.aggregation_interval_units \notin {"frames", "sec", "min"} =>
                        Reported(ai, "Invalid aggregation interval unit: %s")
        /\ tracker.errors # {} => tracker.frames = 0

(***************************************************************************)
(* C28. The frame counter and the rows in update_frame_activity.           *)
(***************************************************************************)
\* this step is update_frame_activity of area a
Updates(a) == pc = "update" /\ area_index = a /\ hist'.updated[a] = hist.updated[a] + 1

\* the rows of an area that are complete: written, or buffered behind the
\* pending one
RowsCompleted(ma) == ma.lineno + ma.tracking_data_buffer_index

\* C28: update_frame_activity resets the frame counter exactly when it had
\* reached the interval, and then completes exactly one row; when only the
\* window is full it aggregates without resetting the counter and without
\* completing a row, the partial result becoming the pending row when there
\* is none and being merged into the pending row when there is one.
C28_CounterReset ==
    [][\A a \in Areas : Updates(a) =>
        LET ma == monitored_areas[a]
            after == monitored_areas'[a]
            index == ma.tracking_data_buffer_index
            partial == calculate_activity(ma, frame.time).activity
        IN  /\ interval_reached(ma) =>
                /\ after.aggregated_frame_index = 1
                /\ RowsCompleted(after) = RowsCompleted(ma) + 1
            /\ ~interval_reached(ma) =>
                /\ after.aggregated_frame_index = ma.aggregated_frame_index + 1
                /\ RowsCompleted(after) = RowsCompleted(ma)
                /\ after.tracking_data_buffer_index = index
                /\ after.lineno = ma.lineno
            /\ ~interval_reached(ma) /\ window_full(ma) =>
                /\ Len(after.tracking_data_buffer) = index + 1
                /\ after.tracking_data_buffer[index + 1] =
                      IF Len(ma.tracking_data_buffer) <= index THEN partial
                      ELSE aggregate_with(ma.tracking_data_buffer[index + 1], partial)
            /\ ~interval_reached(ma) /\ ~window_full(ma) =>
                after.tracking_data_buffer = ma.tracking_data_buffer
    ]_vars

\* an interval of 3 frames with a window of 2: the third update found the
\* window full and made the pending row, the fourth found the interval
\* reached, completed the row and started the counter again
C28_Witness ==
    /\ monitored_areas[1].aggregated_frames = 3
    /\ monitored_areas[1].aggregated_frames_size = 2
    /\ monitored_areas[1].tracking_data_buffer_size = 2
    /\ hist.updated[1] = 4
    /\ monitored_areas[1].aggregated_frame_index = 1
    /\ monitored_areas[1].tracking_data_buffer_index = 1
    /\ Len(monitored_areas[1].tracking_data_buffer) = 1

(***************************************************************************)
(* C29. The window of frames.  The constructor allocates                   *)
(* aggregated_frames_size slots: the cap + 1, or 2 for a cap that is not   *)
(* positive.                                                               *)
(***************************************************************************)
\* C29: whatever the interval and the cap, after every step the window of
\* every area holds at most aggregated_frames_size (cap + 1) frames, and the
\* slot that update_frame_activity writes the frame into is one of the
\* allocated slots 0 .. aggregated_frames_size - 1.
C29_WindowBound ==
    [][\A a \in Areas :
        LET ma == monitored_areas[a]
            after == monitored_areas'[a]
            slot == after.aggregated_frames_buffer_index - 1
        IN  /\ after.aggregated_frames_buffer_index >= 0
            /\ after.aggregated_frames_buffer_index <= after.aggregated_frames_size
            /\ \A r \in DOMAIN after.aggregated_frames_fly_coord :
                  DOMAIN after.aggregated_frames_fly_coord[r] = 0..(after.aggregated_frames_size - 1)
            /\ Updates(a) =>
                  /\ 0 <= slot /\ slot < ma.aggregated_frames_size
                  /\ \A r \in DOMAIN after.aggregated_frames_fly_coord :
                        after.aggregated_frames_fly_coord[r][slot] = ma.current_frame_fly_coord[r]
    ]_vars

\* a cap of 0 (two slots by the constructor's fallback) under an interval of
\* 4 frames: after three updates the window is full
C29_Witness ==
    /\ monitored_areas[1].aggregated_frames = 4
    /\ monitored_areas[1].aggregated_frames_size = 2
    /\ hist.updated[1] = 3
    /\ monitored_areas[1].aggregated_frames_buffer_index = 2
    /\ monitored_areas[1].aggregated_frame_index = 3
    /\ Len(monitored_areas[1].tracking_data_buffer) = 1

(***************************************************************************)
(* C30. The buffer of output rows.                                         *)
(***************************************************************************)
\* this step is the write_activity that follows the loop, for area a
Flushes(a) == hist'.final_write[a] = hist.final_write[a] + 1

\* the rows that write_activity appends to a file are these, numbered on
\* from lineno
WrittenAs(lines, rows, lineno) ==
    /\ Len(lines) = Len(rows)
    /\ \A k \in 1..Len(rows) : lines[k].activity = rows[k] /\ lines[k].lineno = lineno + k

\* C30: the row buffer is empty at first; an update that completes an
\* interval adds exactly the completed row to the rows already buffered, and
\* when that makes tracking_data_buffer_size rows it writes them all, once
\* and in order, after the lines already in the file, and leaves the buffer
\* empty; an update that completes no interval keeps the buffered rows and
\* writes nothing; the buffer never holds more than its size, never keeps a
\* full load of completed rows, and is empty after every write_activity.
C30_RowBuffer ==
    [][\A a \in Areas :
        LET ma == monitored_areas[a]
            after == monitored_areas'[a]
            index == ma.tracking_data_buffer_index
            rows == aggregate_activity(ma, frame.time).tracking_data_buffer
        IN  /\ hist.updated[a] = 0 /\ hist.final_write[a] = 0 => ma.tracking_data_buffer = <<>>
            /\ Len(after.tracking_data_buffer) <= after.tracking_data_buffer_size
            /\ after.tracking_data_buffer_index < after.tracking_data_buffer_size
            /\ after.tracking_data_buffer_index <= Len(after.tracking_data_buffer)
            /\ Len(after.tracking_data_buffer) <= after.tracking_data_buffer_index + 1
            /\ Updates(a) /\ interval_reached(ma) /\ index + 1 < ma.tracking_data_buffer_size =>
                  /\ Len(rows) = index + 1
                  /\ after.tracking_data_buffer = rows
                  /\ after.tracking_data_buffer_index = index + 1
                  /\ after.files = ma.files
                  /\ after.lineno = ma.lineno
            /\ Updates(a) /\ interval_reached(ma) /\ index + 1 >= ma.tracking_data_buffer_size =>
                  /\ Len(rows) = ma.tracking_data_buffer_size
                  /\ after.tracking_data_buffer = <<>>
                  /\ after.tracking_data_buffer_index = 0
                  /\ after.lineno = ma.lineno + Len(rows)
                  /\ \A mi \in DOMAIN ma.files :
                        /\ Len(ma.files[mi]) = ma.lineno
                        /\ SubSeq(after.files[mi], 1, ma.lineno) = ma.files[mi]
                        /\ WrittenAs(SubSeq(after.files[mi], ma.lineno + 1, Len(after.files[mi])),
                                     rows, ma.lineno)
            /\ Updates(a) /\ ~interval_reached(ma) =>
                  /\ SubSeq(after.tracking_data_buffer, 1, index) =
                        SubSeq(ma.tracking_data_buffer, 1, index)
                  /\ after.tracking_data_buffer_index = index
                  /\ after.files = ma.files
                  /\ after.lineno = ma.lineno
            /\ Flushes(a) => after.tracking_data_buffer = <<>>
    ]_vars

\* a buffer of 2 rows under an interval of 1 frame: the third update wrote
\* rows 1 and 2, the fourth buffered row 3
C30_Witness ==
    /\ monitored_areas[1].aggregated_frames = 1
    /\ monitored_areas[1].tracking_data_buffer_size = 2
    /\ hist.updated[1] = 4
    /\ monitored_areas[1].lineno = 2
    /\ Len(monitored_areas[1].files[0]) = 2
    /\ monitored_areas[1].tracking_data_buffer_index = 1
    /\ Len(monitored_areas[1].tracking_data_buffer) = 1

(***************************************************************************)
(* Contours (_process_roi).  A contour is what cv2 reports of it: its      *)
(* moments m00, m10, m01 and its bounding rectangle (x, y, w, h), in       *)
(* pixels of the ROI image.                                                *)
(***************************************************************************)
\* the most contours found in one ROI
MaxContours == 3

\* the area at and above which a contour is not a fly
fly_area_ceiling == 400

\* _process_roi: the area and the centre of a contour, the centre in units
\* of 1 / SubPixel of a pixel
contour_area(c) == IF c.m00 > 0 THEN c.m00 ELSE c.rect[3] * c.rect[4]

contour_coords(c) ==
    IF c.m00 > 0
    THEN <<(c.m10 * SubPixel) \div c.m00, (c.m01 * SubPixel) \div c.m00>>
    ELSE <<c.rect[1] * SubPixel + (c.rect[3] * SubPixel) \div 2,
           c.rect[2] * SubPixel + (c.rect[4] * SubPixel) \div 2>>

\* mutant: of the contours below the ceiling the last one is kept
RECURSIVE select_fly_last(_, _, _)
select_fly_last(fly_cnts, fly_coords, fly_area) ==
    IF fly_cnts = <<>> THEN fly_coords
    ELSE IF contour_area(Head(fly_cnts)) < fly_area_ceiling
         THEN select_fly_last(Tail(fly_cnts), contour_coords(Head(fly_cnts)),
                              contour_area(Head(fly_cnts)))
         ELSE select_fly_last(Tail(fly_cnts), fly_coords, fly_area)

\* _process_roi: the loop over fly_cnts, from the fly_coords and fly_area it
\* has so far
RECURSIVE select_fly(_, _, _)
select_fly(fly_cnts, fly_coords, fly_area) ==
    IF fly_cnts = <<>> THEN fly_coords
    ELSE IF contour_area(Head(fly_cnts)) < fly_area_ceiling
            /\ (fly_coords = None \/ contour_area(Head(fly_cnts)) > fly_area)
         THEN select_fly(Tail(fly_cnts), contour_coords(Head(fly_cnts)),
                         contour_area(Head(fly_cnts)))
         ELSE select_fly(Tail(fly_cnts), fly_coords, fly_area)

\* _process_roi: the argument of add_fly_coords, for a scale (sx, sy) of
\* fractions
fed_coords(fly_coords, scalef) ==
    IF fly_coords = None THEN None
    ELSE <<(fly_coords[1] * scalef[1][2]) \div scalef[1][1],
           (fly_coords[2] * scalef[2][2]) \div scalef[2][1]>>

\* a contour of m00 = area (its bounding rectangle 2 x 2 when m00 is 0)
\* centred on the whole pixel (x, y)
Contour(area, x, y) ==
    [m00 |-> area, m10 |-> area * x, m01 |-> area * y, rect |-> <<x - 1, y - 1, 2, 2>>]

Contours ==
    {Contour(area, xy[1], xy[2]) :
        area \in {0, 100, 300, fly_area_ceiling, 500}, xy \in {<<2, 4>>, <<6, 2>>}}

InitContours ==
    /\ \E n \in 0..MaxContours : \E fly_cnts \in [1..n -> Contours] :
       \E scalef \in {<<RatInt(1), RatInt(1)>>, <<RatInt(2), RatInt(1)>>} :
            frame = [index |-> 0, time |-> 0, image |-> fly_cnts, scalef |-> scalef]
    /\ monitored_areas = prepare_monitored_areas([areas |-> <<AreaConfig("tall", distance, 1, 1, 1, None)>>])
    /\ hist = EmptyHist(prepare_monitored_areas([areas |-> <<AreaConfig("tall", distance, 1, 1, 1, None)>>]))
    /\ image_source = MovieFile("free", 1)
    /\ mp_pool_size = 1
    /\ running_flag = TRUE
    /\ pc = "contours"
    /\ queue = <<>>
    /\ workers = [w \in 1..1 |-> NoTask]
    /\ area_index = 1
    /\ disk = NoDisk
    /\ tracker = NoTracker

\* _process_roi from findContours on: the fly is selected and fed to
\* add_fly_coords
ProcessRoi ==
    /\ pc = "contours"
    /\ pc' = "done"
    /\ monitored_areas' = [monitored_areas EXCEPT
            ![1] = process_roi(@, 0, fed_coords(select_fly(frame.image, None, 0), frame.scalef))]
    /\ hist' = [hist EXCEPT
            !.added[1][0] = @ + 1,
            !.fed = <<fed_coords(select_fly(frame.image, None, 0), frame.scalef)>>]
    /\ UNCHANGED <<image_source, mp_pool_size, running_flag, frame, queue, workers, area_index,
                   disk, tracker>>

NextContours == ProcessRoi

SpecContours == InitContours /\ [][NextContours]_vars

\* the contours of the frame that are below the ceiling, by their place
BelowCeiling ==
    {i \in 1..Len(frame.image) : contour_area(frame.image[i]) < fly_area_ceiling}

\* C31 as claimed: the point fed to add_fly_coords is the centre of the
\* first contour below the area ceiling, and none when no contour is below
\* it.
C31_FirstBelowCeiling ==
    hist.fed # <<>> =>
        hist.fed[1] =
            IF BelowCeiling = {} THEN None
            ELSE LET i == CHOOSE i \in BelowCeiling : \A j \in BelowCeiling : i <= j
                 IN  fed_coords(contour_coords(frame.image[i]), frame.scalef)

\* C31 amended: the point fed to add_fly_coords is the centre of the contour
\* of the largest area among those below the area ceiling, the first of
\* them when several have that area, and none when no contour is below it.
C31_LargestBelowCeiling ==
    hist.fed # <<>> =>
        hist.fed[1] =
            IF BelowCeiling = {} THEN None
            ELSE LET i == CHOOSE i \in BelowCeiling : \A j \in BelowCeiling :
                            \/ contour_area(frame.image[i]) > contour_area(frame.image[j])
                            \/ /\ contour_area(frame.image[i]) = contour_area(frame.image[j])
                               /\ i <= j
                 IN  fed_coords(contour_coords(frame.image[i]), frame.scalef)

\* a contour of area 100 at (2, 4), then one of area 300 at (6, 2), then one
\* above the ceiling: the second was fed
C31_Witness ==
    /\ Len(frame.image) = 3
    /\ frame.image[1] = Contour(100, 2, 4)
    /\ frame.image[2] = Contour(300, 6, 2)
    /\ frame.image[3] = Contour(500, 2, 4)
    /\ frame.scalef = <<RatInt(1), RatInt(1)>>
    /\ hist.fed = << <<6 * SubPixel, 2 * SubPixel>> >>
    /\ monitored_areas[1].current_frame_fly_coord[0] = <<6, 2>>

(***************************************************************************)
(* C32. The steps of a row.  Runs long enough for two complete rows of     *)
(* every interval, over a movie whose point moves on every frame.          *)
(***************************************************************************)
StepRuns ==
    { [areas |-> <<AreaConfig("tall", t, i, c, b, None)>>,
       movie |-> "ramp", nframes |-> 2 * MaxInterval + 1, mp_pool_size |-> 1] :
        t \in TrackingTypes, i \in 1..MaxInterval, c \in 1..MaxInterval, b \in 1..MaxBufSize }

InitSteps == InitWith(StepRuns)

SpecSteps == InitSteps /\ [][Next]_vars

\* the rows of area a that the interval trigger completed, in order: the
\* lines written (but the one of the final flush) and the rows buffered
\* behind the pending one
CompleteRows(a) ==
    [k \in 1..(Len(Rows(a)) - hist.final_write[a]) |-> Rows(a)[k].activity]
    \o SubSeq(monitored_areas[a].tracking_data_buffer, 1,
              monitored_areas[a].tracking_data_buffer_index)

\* C32 as claimed: all the rows completed by the interval trigger cover the
\* same number of consecutive-frame steps, the first row of the run like
\* every later one.
C32_SameSteps ==
    \A a \in Areas : \A k \in 1..Len(CompleteRows(a)) :
        CompleteRows(a)[k].nframes = CompleteRows(a)[1].nframes

\* C32 amended: the first row completed by the interval trigger covers
\* interval - 1 consecutive-frame steps and every later complete row covers
\* interval steps.
C32_StepsOfRows ==
    \A a \in Areas : \A k \in 1..Len(CompleteRows(a)) :
        CompleteRows(a)[k].nframes =
            IF k = 1 THEN monitored_areas[a].aggregated_frames - 1
            ELSE monitored_areas[a].aggregated_frames

\* an interval of 3 frames under a window of 2: two rows are complete, of 2
\* and of 3 steps, each merged from partial aggregates
C32_Witness ==
    /\ monitored_areas[1].aggregated_frames = 3
    /\ monitored_areas[1].aggregated_frames_size = 2
    /\ Len(CompleteRows(1)) = 2
    /\ CompleteRows(1)[1].nframes = 2
    /\ CompleteRows(1)[2].nframes = 3
    /\ CompleteRows(1)[2].parts > 1

(***************************************************************************)
(* C33. write_activity called between two frames, at any point of an       *)
(* interval.                                                               *)
(***************************************************************************)
\* the most calls of write_activity from outside the frame loop
MaxWrites == 1

WriteRuns ==
    { [areas |-> <<AreaConfig("tall", t, i, 2, b, None)>>,
       movie |-> "ramp", nframes |-> MaxFrames, mp_pool_size |-> 1] :
        t \in TrackingTypes, i \in 1..MaxInterval, b \in 1..MaxBufSize }

InitWrites == InitWith(WriteRuns)

\* MonitoredArea.write_activity, called on area a between two frames
WriteActivity(a) ==
    /\ pc = "poll"
    /\ hist.writes < MaxWrites
    /\ monitored_areas' = [monitored_areas EXCEPT ![a] = write_activity(@)]
    /\ hist' = [hist EXCEPT !.writes = @ + 1]
    /\ UNCHANGED <<image_source, mp_pool_size, running_flag, pc, frame, queue, workers,
                   area_index, disk, tracker>>

NextWrites == Next \/ \E a \in Areas : WriteActivity(a)

SpecWrites == InitWrites /\ [][NextWrites]_vars

\* this step is a call of write_activity from outside the frame loop
Writes == hist'.writes = hist.writes + 1

\* C33: a call of write_activity leaves the window buffer, the window fill
\* index, the accepted point of every ROI and the logical frame counter of
\* the area as they were.
C33_WriteFrame ==
    [][Writes => \A a \in Areas :
        /\ monitored_areas'[a].aggregated_frames_fly_coord =
              monitored_areas[a].aggregated_frames_fly_coord
        /\ monitored_areas'[a].aggregated_frames_buffer_index =
              monitored_areas[a].aggregated_frames_buffer_index
        /\ monitored_areas'[a].current_frame_fly_coord =
              monitored_areas[a].current_frame_fly_coord
        /\ monitored_areas'[a].aggregated_frame_index =
              monitored_areas[a].aggregated_frame_index
    ]_vars

(***************************************************************************)
(* The axis of a beam.  ROIs of every shape up to MaxSide px a side, the   *)
(* flat ones included, are drawn on area 1.                                *)
(***************************************************************************)
MaxSide == 2

\* MonitoredArea.get_midline: the orientation it chooses for the ROI
midline_horizontal_beam(roi) ==
    LET rect == roi_to_rect(roi)
    IN  Abs(rect[2][2] - rect[1][2]) >= Abs(rect[2][1] - rect[1][1])

\* MonitoredArea._calculate_vbm: the orientation it reads off the beam md
vbm_horizontal_beam(md) == md[1][2] = md[2][2]

\* the ROI drawn from (x, y) to (x + w, y + h)
RoiRect(x, y, w, h) == << <<x, y>>, <<x + w, y>>, <<x + w, y + h>>, <<x, y + h>> >>

RoiRects == { RoiRect(x, 1, w, h) : x \in 0..1, w \in 0..MaxSide, h \in 0..MaxSide }

NextMidlines == \E roi \in RoiRects : AddRoi(1, roi, 1)

SpecMidlines == InitRois /\ [][NextMidlines]_vars

\* C34: for every ROI, one of zero width or zero height included, the axis
\* _calculate_vbm tests crossings against (horizontal when the two endpoints
\* of the beam have the same y) is the axis get_midline chose for the ROI.
C34_SameAxis ==
    \A a \in Areas :
        \A i \in 1..Len(relative_beams(monitored_areas[a])) :
            vbm_horizontal_beam(relative_beams(monitored_areas[a])[i])
                = midline_horizontal_beam(monitored_areas[a].ROIS[i])

(***************************************************************************)
(* The lists kept per ROI.  ROIs are drawn on either area, area 1 is saved *)
(* and the file is loaded into either area, more than once.                *)
(***************************************************************************)
NextBeams ==
    \/ \E a \in {1, 2} : \E drawn \in RoisDrawn : AddRoi(a, drawn.roi, drawn.n_flies)
    \/ \E f \in FileNames : SaveRois(1, f)
    \/ \E a \in {1, 2} : \E f \in FileNames : LoadRois(a, f)

SpecBeams == InitRois /\ [][NextBeams]_vars

\* C35: after any sequence of add_roi and load_rois calls, load_rois called
\* more than once or after add_roi included, the beam list and the
\* background list have exactly one entry per ROI, and beam i is the midline
\* of ROI i.
C35_OnePerRoi ==
    \A a \in {1, 2} :
        LET ma == monitored_areas[a]
        IN  /\ Len(ma.beams) = Len(ma.ROIS)
            /\ Len(ma.rois_background) = Len(ma.ROIS)
            /\ \A i \in 1..Len(ma.ROIS) : ma.beams[i] = get_midline(ma.ROIS[i])

(***************************************************************************)
(* The frames of the segments of a batch run.                              *)
(***************************************************************************)
\* the frames between the bounds of an opened source: those a call of
\* process_image_frames on it processes
frames_of(src) == {f \in 0..(src.total_frames - 1) : src.start <= f /\ f < src.end}

\* _run_tracker: the frames of the source it opens for the window args on
\* the movie of src
segment_frames(src, args) ==
    frames_of(MovieFile_open(src.movie, TRUE, src.total_frames, src.fps,
                             args.start_pos_msecs, args.end_pos_msecs))

\* the segments that process frame f
SegmentsOf(f) ==
    {k \in 1..Len(tracker.tracker_args) : f \in segment_frames(image_source, tracker.tracker_args[k])}

\* C36: in batch mode with more than one process, every frame that a single
\* run over the same bounds would process is processed by exactly one
\* segment: the frame ranges of the segments are pairwise disjoint and their
\* union is [start frame, end frame), also when the length of the video is
\* not a whole number of seconds.
C36_EveryFrameOnce ==
    tracker.pc \in {"starmap", "ValueError"} =>
        /\ \A f \in frames_of(image_source) : Cardinality(SegmentsOf(f)) = 1
        /\ \A k \in 1..Len(tracker.tracker_args) :
              segment_frames(image_source, tracker.tracker_args[k]) \subseteq frames_of(image_source)

(***************************************************************************)
(* The tracker widget.  tracker holds the two buttons, the TrackerStatus   *)
(* and the thread of every run started, and the slot calls that            *)
(* tracker_running_signal has queued for the event loop of the GUI thread. *)
(* A status is connected as long as its thread lives.  The event loop      *)
(* delivers what is queued before it handles the next click.  The fields   *)
(* cancelled and seen of a run are history: a Cancel has reached its       *)
(* status, and what its polls observed after that.                         *)
(***************************************************************************)
MaxRuns == 2
MaxPolls == 2

\* TrackerStatus.__init__ and the thread started on process_frames
TrackerStatus(flag) ==
    [running_flag |-> flag, thread |-> "loop", polls |-> 0,
     cancelled |-> FALSE, seen |-> <<>>]

\* TrackerWidget once a valid configuration and a movie are loaded
TrackerWidget ==
    [pc |-> "gui", start_btn |-> TRUE, cancel_btn |-> FALSE, runs |-> <<>>, events |-> <<>>]

\* tracker_running_signal.emit(flag): one queued call of _set_running_flag
\* per connected TrackerStatus
RECURSIVE emit(_, _, _, _)
emit(runs, k, flag, by_cancel) ==
    IF k > Len(runs) THEN <<>>
    ELSE (IF runs[k].thread # "done"
          THEN <<[status |-> k, flag |-> flag, by_cancel |-> by_cancel]>>
          ELSE <<>>) \o emit(runs, k + 1, flag, by_cancel)

\* TrackerWidget._stop_tracker
_stop_tracker(widget, by_cancel) ==
    [widget EXCEPT !.events = @ \o emit(widget.runs, 1, FALSE, by_cancel),
                   !.start_btn = TRUE,
                   !.cancel_btn = FALSE]

\* TrackerWidget._start_tracker: the configuration is valid and the user
\* goes on (ok), or not
_start_tracker(widget, ok) ==
    LET emitted == [widget EXCEPT !.start_btn = FALSE,
                                  !.cancel_btn = TRUE,
                                  !.events = @ \o emit(widget.runs, 1, TRUE, FALSE)]
    IN  IF ok
        THEN [emitted EXCEPT !.runs = Append(@, TrackerStatus(TRUE))]
        ELSE _stop_tracker(emitted, FALSE)

\* TrackerStatus._set_running_flag, called by the event loop
_set_running_flag(run, event) ==
    [run EXCEPT !.running_flag = event.flag,
                !.cancelled = @ \/ event.by_cancel]

\* _next_image_frame: one test of the cancel predicate by the thread of the
\* run, and get_image, which has a frame or not
poll(run, has_more_frames) ==
    [run EXCEPT !.polls = @ + 1,
                !.seen = IF run.cancelled THEN Append(@, run.running_flag) ELSE @,
                !.thread = IF run.running_flag /\ has_more_frames THEN "loop" ELSE "stopping"]

InitGui ==
    /\ tracker = TrackerWidget
    /\ image_source = MovieFile("free", 0)
    /\ monitored_areas = <<>>
    /\ mp_pool_size = 1
    /\ running_flag = TRUE
    /\ pc = "gui"
    /\ frame = NoFrame
    /\ queue = <<>>
    /\ workers = [w \in 1..1 |-> NoTask]
    /\ area_index = 1
    /\ disk = NoDisk
    /\ hist = EmptyHist(<<>>)

GuiUnchanged ==
    UNCHANGED <<monitored_areas, image_source, mp_pool_size, running_flag, pc, frame,
                queue, workers, area_index, disk, hist>>

\* a click on Start
ClickStart ==
    /\ tracker.pc = "gui"
    /\ tracker.start_btn
    /\ tracker.events = <<>>
    /\ Len(tracker.runs) < MaxRuns
    /\ \E ok \in BOOLEAN : tracker' = _start_tracker(tracker, ok)
    /\ GuiUnchanged

\* a click on Cancel
ClickCancel ==
    /\ tracker.pc = "gui"
    /\ tracker.cancel_btn
    /\ tracker.events = <<>>
    /\ tracker' = _stop_tracker(tracker, TRUE)
    /\ GuiUnchanged

\* the event loop calls the first slot queued
DeliverEvent ==
    /\ tracker.pc = "gui"
    /\ tracker.events # <<>>
    /\ tracker' = [tracker EXCEPT
                      !.events = Tail(@),
                      !.runs[Head(tracker.events).status] =
                          _set_running_flag(@, Head(tracker.events))]
    /\ GuiUnchanged

\* the thread of run k tests the predicate at the top of the loop
ThreadPoll(k) ==
    /\ tracker.pc = "gui"
    /\ tracker.runs[k].thread = "loop"
    /\ \E has_more_frames \in BOOLEAN :
          /\ has_more_frames => tracker.runs[k].polls < MaxPolls
          /\ tracker' = [tracker EXCEPT !.runs[k] = poll(@, has_more_frames)]
    /\ GuiUnchanged

\* process_frames of run k after process_image_frames has returned
ThreadStop(k) ==
    /\ tracker.pc = "gui"
    /\ tracker.runs[k].thread = "stopping"
    /\ tracker' = [_stop_tracker(tracker, FALSE) EXCEPT !.runs[k].thread = "done"]
    /\ GuiUnchanged

NextGui ==
    \/ ClickStart
    \/ ClickCancel
    \/ DeliverEvent
    \/ \E k \in 1..Len(tracker.runs) : ThreadPoll(k)
    \/ \E k \in 1..Len(tracker.runs) : ThreadStop(k)

SpecGui == InitGui /\ [][NextGui]_vars

\* the runs whose thread is in the loop with a predicate that is true
ActiveRuns ==
    {k \in 1..Len(tracker.runs) :
        tracker.runs[k].thread = "loop" /\ tracker.runs[k].running_flag}

\* C37: in the GUI at most one tracking run is active at a time; after
\* Cancel the thread of the run observes its cancel predicate false at its
\* next poll and stops, also when Start is pressed again before that poll;
\* a later Start never sets the predicate of a cancelled run back to true.
C37_OneRunCancelSticks ==
    /\ [](Cardinality(ActiveRuns) <= 1)
    /\ [](\A k \in 1..Len(tracker.runs) :
              \A j \in 1..Len(tracker.runs[k].seen) : ~tracker.runs[k].seen[j])
    /\ [][\A k \in 1..Len(tracker.runs) :
              tracker.runs[k].cancelled => ~tracker'.runs[k].running_flag]_vars

(***************************************************************************)
(* Termination.  The cancel predicate stays true: there is no Cancel.  The *)
(* main thread goes on with its next statement, every decode call returns  *)
(* and the pool runs the tasks it was given: a step that can be taken is   *)
(* taken in the end.                                                       *)
(***************************************************************************)
NextRunning ==
    \/ Poll
    \/ NextImageFrame
    \/ Dispatch
    \/ \E w \in Workers : StartTask(w)
    \/ \E w \in Workers : FinishTask(w)
    \/ Join
    \/ UpdateMonitoredAreaActivity
    \/ FlushMonitoredArea

SpecTermination == InitPipeline /\ [][NextRunning]_vars /\ WF_vars(NextRunning)

\* process_image_frames has returned after the final flush of every area
Returned ==
    /\ pc = "done"
    /\ \A a \in Areas : hist.final_aggregate[a] = 1 /\ hist.final_write[a] = 1

\* this step is a call of get_image that reports no frame
NoFrameReported == pc = "read" /\ hist'.reads = hist.reads + 1 /\ hist'.frames = hist.frames

\* C38: for a source with finite bounds and a cancel predicate that stays
\* true, provided every decode call returns, process_image_frames leaves
\* the frame loop, performs the final flush for every area and returns; a
\* decode call that reports no frame ends the loop.
C38_Termination ==
    /\ <>Returned
    /\ [][NoFrameReported => pc' = "flush"]_vars

\* a run has returned, flushed, after a decode call inside the bounds of the
\* source reported no frame
C38_Witness ==
    /\ Returned
    /\ running_flag
    /\ hist.frames > 0
    /\ hist.reads = hist.frames + 1
    /\ image_source.current_frame <= image_source.end

(***************************************************************************)
(* The counters of an area after update_frame_activity.                    *)
(***************************************************************************)
\* C39: after every call of update_frame_activity the logical frame counter
\* is at least 1 and at most the interval, the window fill index is at least
\* 1 and at most the capacity of the window, and the row buffer is as long
\* as the pending-row index or longer by exactly one.
C39_CounterBounds ==
    [][\A a \in Areas : Updates(a) =>
        LET after == monitored_areas'[a]
        IN  /\ 1 <= after.aggregated_frame_index
            /\ after.aggregated_frame_index <= after.aggregated_frames
            /\ 1 <= after.aggregated_frames_buffer_index
            /\ after.aggregated_frames_buffer_index <= after.aggregated_frames_size
            /\ \/ Len(after.tracking_data_buffer) = after.tracking_data_buffer_index
               \/ Len(after.tracking_data_buffer) = after.tracking_data_buffer_index + 1
    ]_vars

\* an area has been updated up to the end of its second interval of 2
\* frames, with a full window, a row buffered and a partial row pending
\* behind it
C39_Witness ==
    /\ hist.updated[1] = 4
    /\ monitored_areas[1].aggregated_frames = 2
    /\ monitored_areas[1].aggregated_frame_index = 2
    /\ monitored_areas[1].aggregated_frames_buffer_index = monitored_areas[1].aggregated_frames_size
    /\ monitored_areas[1].tracking_data_buffer_index = 1
    /\ Len(monitored_areas[1].tracking_data_buffer) = 2

====
